---- MODULE Spec2Model ----
(***************************************************************************)
(* P&ID connectivity reconstruction: the collinear merger of              *)
(* LineDetectionService (line_detection.py) and the graph construction of *)
(* GraphConstructionService (graph_construction.py).                      *)
(*                                                                         *)
(* Numbers.  All coordinates are integers (detect_lines casts them with   *)
(* int(), the detectors emit integer boxes).  A Euclidean distance d is   *)
(* carried as its square d2, so `d < t` is `d2 < t*t` and an ordering by  *)
(* d is the ordering by d2.  An angle (degrees, atan2(dy, dx)) is carried *)
(* as the direction vector <<dx, dy>> it is the angle of; the wrapped     *)
(* difference of two angles is the unsigned angle between the vectors.    *)
(***************************************************************************)
EXTENDS Integers, Sequences, FiniteSets, TLC

VARIABLES
    pc,           \* position of the caller: which operation ran last
    svc,          \* fields of the GraphConstructionService object
    symbols,      \* build_graph argument: list of symbol dicts
    lines,        \* build_graph argument: list of line dicts
    connections,  \* line index -> candidates recorded by step 3 of build_graph
    G,            \* the nx.DiGraph returned by build_graph
    out,          \* the dict returned by graph_to_dict
    raw,          \* merge_collinear_lines argument: list of line dicts
    merged,       \* list returned by merge_collinear_lines
    calls,        \* number of build_graph invocations made so far
    job,          \* run_analysis: the job's status, its pages, the page loop
    text_elements,  \* _mask_symbols_and_text argument: list of text dicts
    gray,         \* _mask_symbols_and_text argument: the grayscale raster
    result,       \* raster returned by _mask_symbols_and_text
    job_logs,     \* routes.job_logs: job id -> list of messages
    client        \* a client polling get_analysis_logs: its since, what it got

vars == <<pc, svc, symbols, lines, connections, G, out, raw, merged, calls, job,
          text_elements, gray, result, job_logs, client>>

None == "<None>"

----------------------------------------------------------------------------
(* Bounds of the model *)

MaxSegs == 3      \* longest list given to merge_collinear_lines
MaxSyms == 3      \* longest symbol list given to build_graph
MaxLines == 2     \* longest line list given to build_graph
MaxCalls == 2     \* calls made on the one service object
MaxPages == 2     \* pages of a job's P&ID
MaxBranchSyms == 3   \* longest symbol list of the branching layouts
MaxBranchLines == 3  \* longest line list of the branching layouts
MaxPointSyms == 2    \* longest symbol list of the layouts with point lines
MaxPointLines == 2   \* longest line list of the layouts with point lines
ImageWidth == 20     \* gray.shape[1] of the rasters given to the mask
ImageHeight == 14    \* gray.shape[0] of the rasters given to the mask
MaxMaskSyms == 2     \* longest symbol list given to the mask
MaxMaskTexts == 1    \* longest text list given to the mask

----------------------------------------------------------------------------
(* Integer geometry *)

Abs(n) == IF n < 0 THEN -n ELSE n

Min2(a, b) == IF a <= b THEN a ELSE b

Dist2(p, q) == (p[1] - q[1]) * (p[1] - q[1]) + (p[2] - q[2]) * (p[2] - q[2])

Dot(u, v) == u[1] * v[1] + u[2] * v[2]

Cross(u, v) == u[1] * v[2] - u[2] * v[1]

\* The vector whose atan2 is the segment's angle; atan2(0, 0) = 0 is the
\* angle of <<1, 0>>.
Dir(s, e) == IF s = e THEN <<1, 0>> ELSE <<e[1] - s[1], e[2] - s[2]>>

\* tan(10 deg) = 0.1763270 as the fraction 70/397 = 0.1763224: no ratio of
\* two integers below 397 lies between the two.
Tan10 == <<70, 397>>

\* line_type: |angle| < 10 or > 170 is horizontal, 80 < |angle| < 100 is
\* vertical, anything else diagonal.
LineType(d) ==
    IF Abs(d[2]) * Tan10[2] < Tan10[1] * Abs(d[1]) THEN "horizontal"
    ELSE IF Abs(d[1]) * Tan10[2] < Tan10[1] * Abs(d[2]) THEN "vertical"
    ELSE "diagonal"

\* A line dict as detect_lines and _merge_two_lines build it: length, angle
\* and type are computed from the two endpoints.
MkLine(s, e) ==
    [start |-> s, end |-> e, len2 |-> Dist2(s, e), dir |-> Dir(s, e),
     type |-> LineType(Dir(s, e))]

\* Injective sequences over S of length at most n: lists without repeats.
SeqsUpTo(S, n) ==
    UNION { { f \in [1..k -> S] : \A a, b \in 1..k : a # b => f[a] # f[b] } : k \in 0..n }

----------------------------------------------------------------------------
(* LineDetectionService.merge_collinear_lines *)

GapThreshold == 20      \* gap_threshold default, pixels

\* tan(angle_threshold) for the default angle_threshold of 5 degrees, as the
\* fraction 7/80 = 0.0875 (tan 5 deg = 0.0874887).
TanAngleThreshold == <<7, 80>>

\* angle_diff > angle_threshold.  The angle between u and v is at most 5
\* degrees iff u.v > 0 and |u x v| / (u.v) <= tan(5 deg); 7/80 separates
\* the same integer pairs whenever u.v <= 1106.
AngleDiffExceeds(u, v) ==
    ~ (/\ Dot(u, v) > 0
       /\ Abs(Cross(u, v)) * TanAngleThreshold[2] < Dot(u, v) * TanAngleThreshold[1])

MinEndpointGap2(l1, l2) ==
    Min2(Min2(Dist2(l1.start, l2.start), Dist2(l1.start, l2.end)),
         Min2(Dist2(l1.end, l2.start), Dist2(l1.end, l2.end)))

\* The (i, j) pairs in the order of the two nested loops of _merge_two_lines.
PairOrder == << <<1, 2>>, <<1, 3>>, <<1, 4>>, <<2, 3>>, <<2, 4>>, <<3, 4>> >>

\* The pair search never replacing its initial best_pair = (0, 1).
BestPairFirst(points) == PairOrder[1]

\* best_pair: max_dist starts at 0 and is replaced on a strictly larger
\* distance only, so the first pair of the loop order that attains the
\* maximum wins, and (0, 1) stays when every distance is 0.

BestPair(points) ==
    LET d(k) == Dist2(points[PairOrder[k][1]], points[PairOrder[k][2]])
        best == CHOOSE k \in 1..6 :
                    /\ \A m \in 1..6 : d(m) <= d(k)
                    /\ \A m \in 1..(k - 1) : d(m) < d(k)
    IN  PairOrder[best]

\* The merge keeping line1's angle and type for the merged segment.
MergeTwoLinesKeepingAngle(l1, l2) ==
    LET points == <<l1.start, l1.end, l2.start, l2.end>>
        bp == BestPair(points)
    IN  [MkLine(points[bp[1]], points[bp[2]]) EXCEPT !.dir = l1.dir, !.type = l1.type]

MergeTwoLines(l1, l2) ==
    LET points == <<l1.start, l1.end, l2.start, l2.end>>
        bp == BestPair(points)
    IN  MkLine(points[bp[1]], points[bp[2]])

\* The inner loop repeated until no unused segment passes both tests: the
\* merge iterated to a fixed point.
RECURSIVE MergeInnerRescan(_, _, _, _, _)
MergeInnerRescan(ls, i, j, current, used) ==
    IF j > Len(ls)
    THEN IF \E k \in 1..Len(ls) :
                /\ k \notin used
                /\ ~ AngleDiffExceeds(current.dir, ls[k].dir)
                /\ MinEndpointGap2(current, ls[k]) <= GapThreshold * GapThreshold
         THEN MergeInnerRescan(ls, i, 1, current, used)
         ELSE <<current, used>>
    ELSE IF j \in used \/ j = i THEN MergeInnerRescan(ls, i, j + 1, current, used)
    ELSE IF AngleDiffExceeds(current.dir, ls[j].dir)
         THEN MergeInnerRescan(ls, i, j + 1, current, used)
    ELSE IF MinEndpointGap2(current, ls[j]) > GapThreshold * GapThreshold
         THEN MergeInnerRescan(ls, i, j + 1, current, used)
    ELSE MergeInnerRescan(ls, i, j + 1, MergeTwoLines(current, ls[j]), used \cup {j})

\* The inner `for j` loop of merge_collinear_lines for outer index i, from
\* position j on; yields <<current, used>>.
RECURSIVE MergeInner(_, _, _, _, _)
MergeInner(ls, i, j, current, used) ==
    IF j > Len(ls) THEN <<current, used>>
    ELSE IF j \in used \/ j = i THEN MergeInner(ls, i, j + 1, current, used)
    ELSE IF AngleDiffExceeds(current.dir, ls[j].dir)
         THEN MergeInner(ls, i, j + 1, current, used)
    ELSE IF MinEndpointGap2(current, ls[j]) > GapThreshold * GapThreshold
         THEN MergeInner(ls, i, j + 1, current, used)
    ELSE MergeInner(ls, i, j + 1, MergeTwoLines(current, ls[j]), used \cup {j})

\* The outer loop without its `if i in used: continue`: an absorbed segment
\* starts an output of its own as well.
RECURSIVE MergeOuterNoSkip(_, _, _, _)
MergeOuterNoSkip(ls, i, used, acc) ==
    IF i > Len(ls) THEN acc
    ELSE LET r == MergeInner(ls, i, 1, ls[i], used \cup {i})
         IN  MergeOuterNoSkip(ls, i + 1, r[2], Append(acc, r[1]))

\* The outer `for i` loop, from position i on; yields the merged list.
RECURSIVE MergeOuter(_, _, _, _)
MergeOuter(ls, i, used, acc) ==
    IF i > Len(ls) THEN acc
    ELSE IF i \in used THEN MergeOuter(ls, i + 1, used, acc)
    ELSE LET r == MergeInner(ls, i, 1, ls[i], used \cup {i})
         IN  MergeOuter(ls, i + 1, r[2], Append(acc, r[1]))

MergeCollinearLines(ls) == IF ls = <<>> THEN <<>> ELSE MergeOuter(ls, 1, {}, <<>>)

----------------------------------------------------------------------------
(* GraphConstructionService: geometry of steps 2-4 of build_graph *)

ConnectionThreshold == 50        \* connection_threshold default
LineExtensionBuffer == 30        \* line_extension_buffer default
SymbolProximityThreshold == 100  \* symbol_proximity_threshold default
BoxPadding == 5                  \* padding of the symbol rectangle

\* n/d <= c/sqrt(l2) for integers n, c and d > 0, l2 > 0, decided exactly.
RatLeqRoot(n, d, c, l2) ==
    IF n <= 0 /\ c >= 0 THEN TRUE
    ELSE IF n > 0 /\ c < 0 THEN FALSE
    ELSE IF n > 0 THEN n * n <= (c * c * d * d) \div l2
    ELSE ~ (n * n <= (c * c * d * d - 1) \div l2)

\* new_start = p1 + dir * buffer instead of p1 - dir * buffer: the segment
\* is shifted forward, not extended.
ExtendLineShifted(s, e, buffer) ==
    IF s = e THEN [p |-> s, d |-> <<0, 0>>, back |-> 0, fwd |-> 0]
    ELSE [p |-> s, d |-> <<e[1] - s[1], e[2] - s[2]>>, back |-> -buffer, fwd |-> buffer]

\* _extend_line without its `length == 0` return: the buffer is applied
\* along a direction that does not exist.
ExtendLineUnguarded(s, e, buffer) ==
    [p |-> s, d |-> <<e[1] - s[1], e[2] - s[2]>>, back |-> buffer, fwd |-> buffer]

\* _extend_line.  The extended LineString is the set of points
\* p + t*d with -back/|d| <= t <= 1 + fwd/|d|; a zero-length line is
\* returned unchanged (d = <<0, 0>>).
ExtendLine(s, e, buffer) ==
    IF s = e THEN [p |-> s, d |-> <<0, 0>>, back |-> 0, fwd |-> 0]
    ELSE [p |-> s, d |-> <<e[1] - s[1], e[2] - s[2]>>, back |-> buffer, fwd |-> buffer]

\* box(x - 5, y - 5, x + w + 5, y + h + 5) as <<lo, hi>> corner points.
SymBox(bbox) ==
    << <<bbox[1] - BoxPadding, bbox[2] - BoxPadding>>,
       <<bbox[1] + bbox[3] + BoxPadding, bbox[2] + bbox[4] + BoxPadding>> >>

\* extended.intersects(sym_box): the line's parameter interval inside the
\* closed rectangle (one slab per axis) meets the segment's own interval.
Intersects(g, bx) ==
    LET lo == bx[1]
        hi == bx[2]
        l2 == Dot(g.d, g.d)
        axes == {a \in 1..2 : g.d[a] # 0}
        slabLo(a) == IF g.d[a] > 0 THEN <<lo[a] - g.p[a], g.d[a]>>
                                  ELSE <<g.p[a] - hi[a], -g.d[a]>>
        slabHi(a) == IF g.d[a] > 0 THEN <<hi[a] - g.p[a], g.d[a]>>
                                  ELSE <<g.p[a] - lo[a], -g.d[a]>>
    IN  /\ \A a \in (1..2) \ axes : lo[a] <= g.p[a] /\ g.p[a] <= hi[a]
        /\ \A a \in axes, b \in axes :
               slabLo(a)[1] * slabHi(b)[2] <= slabHi(b)[1] * slabLo(a)[2]
        /\ \A a \in axes :
               /\ RatLeqRoot(slabLo(a)[1] - slabLo(a)[2], slabLo(a)[2], g.fwd, l2)
               /\ RatLeqRoot(-slabHi(a)[1], slabHi(a)[2], g.back, l2)

\* Orientation of r relative to the directed line p -> q.
Orient(p, q, r) == Cross(<<q[1] - p[1], q[2] - p[2]>>, <<r[1] - p[1], r[2] - p[2]>>)

OnSegment(p, q, r) ==
    /\ Orient(p, q, r) = 0
    /\ Min2(p[1], q[1]) <= r[1] /\ r[1] <= -Min2(-p[1], -q[1])
    /\ Min2(p[2], q[2]) <= r[2] /\ r[2] <= -Min2(-p[2], -q[2])

Sign(n) == IF n > 0 THEN 1 ELSE IF n < 0 THEN -1 ELSE 0

\* line1["original"].intersects(line2["original"]) for two closed segments.
SegIntersects(p1, q1, p2, q2) ==
    \/ /\ Sign(Orient(p1, q1, p2)) * Sign(Orient(p1, q1, q2)) < 0
       /\ Sign(Orient(p2, q2, p1)) * Sign(Orient(p2, q2, q1)) < 0
    \/ OnSegment(p1, q1, p2) \/ OnSegment(p1, q1, q2)
    \/ OnSegment(p2, q2, p1) \/ OnSegment(p2, q2, q1)

----------------------------------------------------------------------------
(* GraphConstructionService: steps 1, 3 and 4 of build_graph.  Lists are   *)
(* 1-based here; the Python index of position k is k - 1.                  *)

\* The synthetic id numbered from 1 instead of 0.
NodeIdOneBased(sym, k) ==
    IF sym.tag # None /\ sym.tag # "" THEN sym.tag
    ELSE sym.type \o "_" \o ToString(k)

\* node_id = symbol.get("tag") or f"{type}_{i}": a missing or empty tag is
\* falsy and gives the synthetic id.
NodeId(sym, k) ==
    IF sym.tag # None /\ sym.tag # "" THEN sym.tag
    ELSE sym.type \o "_" \o ToString(k - 1)

SymbolLookup(syms) == [k \in 1..Len(syms) |-> NodeId(syms[k], k)]

NodeAttrs(sym) ==
    [type |-> sym.type, tag |-> sym.tag, bbox |-> sym.bbox,
     center |-> sym.center, node_type |-> "symbol"]

\* Step 1: G.add_node keeps a node's position of first insertion and
\* overwrites its attributes on every later insertion of the same id.
RECURSIVE DistinctInOrder(_)
DistinctInOrder(ids) ==
    IF ids = <<>> THEN <<>>
    ELSE LET init == DistinctInOrder(SubSeq(ids, 1, Len(ids) - 1))
             last == ids[Len(ids)]
         IN  IF \E k \in 1..Len(init) : init[k] = last THEN init ELSE Append(init, last)

AddSymbolNodes(syms) ==
    LET lookup == SymbolLookup(syms)
        ids == {lookup[k] : k \in 1..Len(syms)}
        lastOf(id) == CHOOSE k \in 1..Len(syms) :
                          /\ lookup[k] = id
                          /\ \A m \in (k + 1)..Len(syms) : lookup[m] # id
    IN  [nodes |-> DistinctInOrder(lookup),
         data  |-> [id \in ids |-> NodeAttrs(syms[lastOf(id)])],
         edges |-> <<>>]

\* `<=` for `<` in the two proximity branches.
PairCandidatesLeq(line, g, sym, k, thr) ==
    LET sd == Dist2(line.start, sym.center)
        ed == Dist2(line.end, sym.center)
    IN  IF Intersects(g, SymBox(sym.bbox))
        THEN (IF sd < thr * thr THEN << <<k, "start", sd>> >> ELSE <<>>)
             \o (IF ed < thr * thr THEN << <<k, "end", ed>> >> ELSE <<>>)
        ELSE IF sd <= thr * thr THEN << <<k, "start", sd>> >>
        ELSE IF ed <= thr * thr THEN << <<k, "end", ed>> >>
        ELSE <<>>

\* The candidates one (line, symbol) pair contributes, in recording order.
\* `thr` is connection_threshold, `g` the extended geometry of the line.
PairCandidates(line, g, sym, k, thr) ==
    LET sd == Dist2(line.start, sym.center)
        ed == Dist2(line.end, sym.center)
    IN  IF Intersects(g, SymBox(sym.bbox))
        THEN (IF sd < thr * thr THEN << <<k, "start", sd>> >> ELSE <<>>)
             \o (IF ed < thr * thr THEN << <<k, "end", ed>> >> ELSE <<>>)
        ELSE IF sd < thr * thr THEN << <<k, "start", sd>> >>
        ELSE IF ed < thr * thr THEN << <<k, "end", ed>> >>
        ELSE <<>>

RECURSIVE LineCandidates(_, _, _, _, _)
LineCandidates(line, g, syms, k, thr) ==
    IF k > Len(syms) THEN <<>>
    ELSE PairCandidates(line, g, syms[k], k, thr)
         \o LineCandidates(line, g, syms, k + 1, thr)

\* _find_line_symbol_connections on the geometries of step 2: for every
\* line, its candidates (symbol position, endpoint, squared distance).
FindLineSymbolConnections(syms, ls, cfg) ==
    [i \in 1..Len(ls) |->
        LineCandidates(ls[i],
                       ExtendLine(ls[i].start, ls[i].end, cfg.line_extension_buffer),
                       syms, 1, cfg.connection_threshold)]

\* `dist <= threshold` for `dist < threshold`.
WithinJunctionLeq(p, q, thr) == 4 * Dist2(p, q) <= thr * thr

\* dist < connection_threshold / 2, on squares.
WithinJunction(p, q, thr) == 4 * Dist2(p, q) < thr * thr

\* The if/elif chain for one pair of lines: the label it appends, or None.
JunctionKind(l1, l2, thr) ==
    IF WithinJunction(l1.start, l2.start, thr) THEN "endpoint"
    ELSE IF WithinJunction(l1.start, l2.end, thr) THEN "endpoint"
    ELSE IF WithinJunction(l1.end, l2.start, thr) THEN "endpoint"
    ELSE IF WithinJunction(l1.end, l2.end, thr) THEN "endpoint"
    ELSE IF SegIntersects(l1.start, l1.end, l2.start, l2.end) THEN "intersection"
    ELSE None

\* The two loops of _find_line_to_line_connections from (i, j) on: the
\* list of (line1_idx, line2_idx, connection_type) in loop order.
RECURSIVE LineToLineFrom(_, _, _, _)
LineToLineFrom(ls, thr, i, j) ==
    IF i > Len(ls) THEN <<>>
    ELSE IF j > Len(ls) THEN LineToLineFrom(ls, thr, i + 1, i + 2)
    ELSE (IF JunctionKind(ls[i], ls[j], thr) # None
          THEN << <<i, j, JunctionKind(ls[i], ls[j], thr)>> >>
          ELSE <<>>)
         \o LineToLineFrom(ls, thr, i, j + 1)

\* _find_line_to_line_connections: the list it returns.
LineToLineList(ls, cfg) == LineToLineFrom(ls, cfg.connection_threshold, 1, 2)

\* The pairs the caller adds to its undirected line graph; it reads neither
\* the order of the list nor the label.
FindLineToLineConnections(ls, cfg) ==
    LET list == LineToLineList(ls, cfg)
    IN  { <<list[c][1], list[c][2]>> : c \in 1..Len(list) }

----------------------------------------------------------------------------
(* GraphConstructionService._build_edges_from_connections *)

\* A set of integers as the ascending list.  CPython iterates a set of
\* small non-negative ints (each below the table size, as all indices of
\* this model are) in ascending order.
RECURSIVE Ascending(_)
Ascending(S) ==
    IF S = {} THEN <<>>
    ELSE LET m == CHOOSE x \in S : \A y \in S : x <= y
         IN  <<m>> \o Ascending(S \ {m})

\* The last candidate of a side after sorting: the one of greatest distance.
NearestOnSideFarthest(cands, side) ==
    LET idx == {k \in 1..Len(cands) : cands[k][2] = side}
    IN  IF idx = {} THEN 0
        ELSE cands[CHOOSE k \in idx :
                      \A m \in idx : \/ cands[k][3] > cands[m][3]
                                     \/ cands[k][3] = cands[m][3] /\ k >= m][1]

\* connections.sort(key=distance) is stable: the first candidate of a side
\* after sorting is the one of least distance, the earliest recorded among
\* equals.  0 when the side has no candidate.
NearestOnSide(cands, side) ==
    LET idx == {k \in 1..Len(cands) : cands[k][2] = side}
    IN  IF idx = {} THEN 0
        ELSE cands[CHOOSE k \in idx :
                      \A m \in idx : \/ cands[k][3] < cands[m][3]
                                     \/ cands[k][3] = cands[m][3] /\ k <= m][1]

\* No dedup: every key counts as new.
KeyAddedNever(added, a, b) == FALSE

KeyAdded(added, a, b) == <<a, b>> \in added \/ <<b, a>> \in added

\* The first loop without its `source_idx != target_idx` test.
DirectEdgeOfLineSelf(cands, i, lookup, added) ==
    LET s == NearestOnSide(cands, "start")
        t == NearestOnSide(cands, "end")
    IN  IF Len(cands) < 2 \/ s = 0 \/ t = 0 THEN <<>>
        ELSE IF KeyAdded(added, lookup[s], lookup[t]) THEN <<>>
        ELSE << [source |-> lookup[s], target |-> lookup[t],
                 attrs |-> [type |-> "pipe", line_index |-> i - 1,
                            connection_type |-> "direct"]] >>

\* One pass of the first loop, for line i with candidates `cands`: the
\* direct edge it appends (a list of one), or nothing.
DirectEdgeOfLine(cands, i, lookup, added) ==
    LET s == NearestOnSide(cands, "start")
        t == NearestOnSide(cands, "end")
    IN  IF Len(cands) < 2 \/ s = 0 \/ t = 0 THEN <<>>
        ELSE IF s = t THEN <<>>
        ELSE IF KeyAdded(added, lookup[s], lookup[t]) THEN <<>>
        ELSE << [source |-> lookup[s], target |-> lookup[t],
                 attrs |-> [type |-> "pipe", line_index |-> i - 1,
                            connection_type |-> "direct"]] >>

\* First loop: one direct edge per line whose nearest start-side and
\* nearest end-side candidates are different symbols.  Yields
\* <<edges, added_edges>>.
RECURSIVE DirectEdges(_, _, _, _, _)
DirectEdges(conns, lookup, i, edges, added) ==
    IF i > Len(conns) THEN <<edges, added>>
    ELSE LET new == DirectEdgeOfLine(conns[i], i, lookup, added)
         IN  DirectEdges(conns, lookup, i + 1, edges \o new,
                         added \cup {<<new[k].source, new[k].target>> : k \in 1..Len(new)})

\* nx.connected_components(line_graph): the component of line i.
RECURSIVE Reach(_, _, _)
Reach(n, pairs, S) ==
    LET T == S \cup {j \in 1..n : \E i \in S : <<i, j>> \in pairs \/ <<j, i>> \in pairs}
    IN  IF T = S THEN S ELSE Reach(n, pairs, T)

\* Components in the order connected_components yields them: by first
\* (lowest) line index.
Components(n, pairs) ==
    LET firsts == {i \in 1..n : \A j \in Reach(n, pairs, {i}) : i <= j}
        order == Ascending(firsts)
    IN  [k \in 1..Len(order) |-> Reach(n, pairs, {order[k]})]

\* terminal_list of a component: every symbol any of its lines has a
\* candidate for.
TerminalList(conns, comp) ==
    Ascending(UNION { {conns[i][k][1] : k \in 1..Len(conns[i])} : i \in comp })

\* for j in range(i + 1, i + 2): only neighbours in the list are paired.
PairsFromNeighbours(l, i, j) == [k \in 1..(Len(l) - 1) |-> <<l[k], l[k + 1]>>]

\* for i in range(len(l)): for j in range(i + 1, len(l)): the pairs in
\* loop order.
RECURSIVE PairsFrom(_, _, _)
PairsFrom(l, i, j) ==
    IF i > Len(l) THEN <<>>
    ELSE IF j > Len(l) THEN PairsFrom(l, i + 1, i + 2)
    ELSE << <<l[i], l[j]>> >> \o PairsFrom(l, i, j + 1)

RECURSIVE ChainPairs(_, _, _, _)
ChainPairs(prs, lookup, edges, added) ==
    IF prs = <<>> THEN <<edges, added>>
    ELSE LET a == lookup[prs[1][1]]
             b == lookup[prs[1][2]]
         IN  IF KeyAdded(added, a, b)
             THEN ChainPairs(Tail(prs), lookup, edges, added)
             ELSE ChainPairs(Tail(prs), lookup,
                      Append(edges, [source |-> a, target |-> b,
                                     attrs |-> [type |-> "pipe",
                                                connection_type |-> "chain"]]),
                      added \cup {<<a, b>>})

\* Second loop: chain edges, component by component.
RECURSIVE ChainEdges(_, _, _, _, _, _)
ChainEdges(conns, comps, lookup, c, edges, added) ==
    IF c > Len(comps) THEN edges
    ELSE LET r == ChainPairs(PairsFrom(TerminalList(conns, comps[c]), 1, 2),
                             lookup, edges, added)
         IN  ChainEdges(conns, comps, lookup, c + 1, r[1], r[2])

BuildEdgesFromConnections(conns, lineConns, lookup) ==
    LET d == DirectEdges(conns, lookup, 1, <<>>, {})
    IN  ChainEdges(conns, Components(Len(conns), lineConns), lookup, 1, d[1], d[2])

----------------------------------------------------------------------------
(* GraphConstructionService: step 6, the graph object, graph_to_dict *)

\* `dist <= threshold` for `dist < threshold`.
ProximityPairLeq(c1, c2, thr) ==
    /\ Dist2(c1, c2) <= thr * thr
    /\ \/ 2 * Abs(c1[1] - c2[1]) < thr
       \/ 2 * Abs(c1[2] - c2[2]) < thr

\* _find_proximity_connections: one candidate per pair i < j whose centres
\* are nearer than the threshold and whose x- or y-offset is below half of
\* it, in loop order.
ProximityPair(c1, c2, thr) ==
    /\ Dist2(c1, c2) < thr * thr
    /\ \/ 2 * Abs(c1[1] - c2[1]) < thr
       \/ 2 * Abs(c1[2] - c2[2]) < thr

RECURSIVE ProximityFrom(_, _, _, _, _)
ProximityFrom(syms, lookup, thr, i, j) ==
    IF i > Len(syms) THEN <<>>
    ELSE IF j > Len(syms) THEN ProximityFrom(syms, lookup, thr, i + 1, i + 2)
    ELSE (IF ProximityPair(syms[i].center, syms[j].center, thr)
          THEN << [source |-> lookup[i], target |-> lookup[j],
                   attrs |-> [type |-> "proximity",   \* distance: as its square
                              distance |-> Dist2(syms[i].center, syms[j].center)]] >>
          ELSE <<>>)
         \o ProximityFrom(syms, lookup, thr, i, j + 1)

FindProximityConnections(syms, lookup, cfg) ==
    ProximityFrom(syms, lookup, cfg.symbol_proximity_threshold, 1, 2)

InGraph(g, id) == \E k \in 1..Len(g.nodes) : g.nodes[k] = id

\* G.has_edge(u, v) of a DiGraph: the directed edge u -> v only.
HasEdge(g, u, v) == \E k \in 1..Len(g.edges) : g.edges[k].source = u /\ g.edges[k].target = v

\* G.add_edge(u, v, **attrs): a new edge is appended; an existing u -> v
\* keeps its place and has its attribute dict updated.
AddEdge(g, e) ==
    IF HasEdge(g, e.source, e.target)
    THEN [g EXCEPT !.edges =
            [k \in 1..Len(g.edges) |->
                IF g.edges[k].source = e.source /\ g.edges[k].target = e.target
                THEN [g.edges[k] EXCEPT !.attrs = e.attrs @@ g.edges[k].attrs]
                ELSE g.edges[k]]]
    ELSE [g EXCEPT !.edges = Append(g.edges, e)]

\* for source, target, attrs in edges: if source in G and target in G: add
RECURSIVE AddEdges(_, _)
AddEdges(g, es) ==
    IF es = <<>> THEN g
    ELSE AddEdges(IF InGraph(g, es[1].source) /\ InGraph(g, es[1].target)
                  THEN AddEdge(g, es[1]) ELSE g,
                  Tail(es))

\* ... and not G.has_edge(source, target): add
RECURSIVE AddProximityEdges(_, _)
AddProximityEdges(g, es) ==
    IF es = <<>> THEN g
    ELSE AddProximityEdges(
             IF /\ InGraph(g, es[1].source) /\ InGraph(g, es[1].target)
                /\ ~ HasEdge(g, es[1].source, es[1].target)
             THEN AddEdge(g, es[1]) ELSE g,
             Tail(es))

\* build_graph, steps 1 to 6, given the candidates of step 3.
BuildGraphFrom(syms, ls, conns, cfg) ==
    LET lookup == SymbolLookup(syms)
        g1 == AddSymbolNodes(syms)
        edges == BuildEdgesFromConnections(conns, FindLineToLineConnections(ls, cfg), lookup)
        g5 == AddEdges(g1, edges)
    IN  AddProximityEdges(g5, FindProximityConnections(syms, lookup, cfg))

\* graph_to_dict: a node's attributes that are None are left out.
NodeDict(id, data) ==
    [id |-> id] @@ (IF data.tag = None
                    THEN [k \in DOMAIN data \ {"tag"} |-> data[k]]
                    ELSE data)

EdgeDict(e) == [source |-> e.source, target |-> e.target] @@ e.attrs

\* G.edges(data=True): node by node in node order, each node's out-edges in
\* the order they were added.
RECURSIVE EdgesInNodeOrder(_, _)
EdgesInNodeOrder(g, k) ==
    IF k > Len(g.nodes) THEN <<>>
    ELSE SelectSeq(g.edges, LAMBDA e : e.source = g.nodes[k])
         \o EdgesInNodeOrder(g, k + 1)

\* counts[comp_type] = 1 for counts.get(comp_type, 0) + 1: a type is noted,
\* its nodes are not counted.
CountByTypePresence(g) ==
    LET types == {g.data[g.nodes[k]].type : k \in 1..Len(g.nodes)}
    IN  [t \in types |-> 1]

\* _count_by_type
CountByType(g) ==
    LET types == {g.data[g.nodes[k]].type : k \in 1..Len(g.nodes)}
    IN  [t \in types |-> Cardinality({k \in 1..Len(g.nodes) : g.data[g.nodes[k]].type = t})]

GraphToDict(g) ==
    LET es == EdgesInNodeOrder(g, 1)
    IN  [nodes |-> [k \in 1..Len(g.nodes) |-> NodeDict(g.nodes[k], g.data[g.nodes[k]])],
         edges |-> [k \in 1..Len(es) |-> EdgeDict(es[k])],
         stats |-> [node_count |-> Len(g.nodes),
                    edge_count |-> Len(g.edges),
                    components |-> CountByType(g)]]

----------------------------------------------------------------------------
(* Inputs *)

\* A detected symbol: a 20 x 20 box around its centre, as the detectors
\* compute the centre from the box (x + w // 2, y + h // 2).
Sym(tag, type, c) ==
    [tag |-> tag, type |-> type, center |-> c, bbox |-> <<c[1] - 10, c[2] - 10, 20, 20>>]

SymA == Sym("A", "valve", <<10, 10>>)
SymB == Sym("B", "pump", <<110, 10>>)

SymbolPool ==
    { SymA, SymB,
      Sym(None, "valve", <<90, 10>>),        \* untagged, near A and B
      Sym("valve_1", "valve", <<65, 65>>),   \* a tag that reads like a synthetic id
      Sym("A", "tank", <<300, 10>>) }        \* far from all others, tag A again

LineAB == MkLine(<<15, 10>>, <<105, 10>>)

LinePool ==
    { LineAB,
      MkLine(<<85, 10>>, <<15, 10>>),    \* right to left
      MkLine(<<15, 10>>, <<35, 10>>),    \* both ends near one symbol
      MkLine(<<45, 10>>, <<70, 10>>),    \* stops short of the box at (90, 10)
      MkLine(<<60, 10>>, <<105, 10>>),   \* starts exactly 50 px from (10, 10)
      MkLine(<<60, 40>>, <<60, 40>>) }   \* zero length

RawPool ==
    { MkLine(<<0, 0>>, <<10, 0>>),       \* three pieces of one pipe, gaps of 5
      MkLine(<<15, 0>>, <<30, 0>>),
      MkLine(<<35, 0>>, <<45, 0>>),
      MkLine(<<30, 0>>, <<15, 0>>),      \* the middle piece, listed end first
      MkLine(<<12, 3>>, <<22, 3>>),      \* parallel, 3 px off the pipe
      MkLine(<<10, 0>>, <<10, 12>>),     \* perpendicular
      MkLine(<<65, 0>>, <<75, 0>>),      \* same pipe, exactly 20 px further
      MkLine(<<0, 0>>, <<12, 2>>),       \* 9.5 degrees: horizontal
      MkLine(<<16, 4>>, <<28, 6>>),      \* parallel to it, offset sideways
      MkLine(<<80, 0>>, <<90, 0>>) }     \* same pipe, far away

DefaultService ==
    [connection_threshold |-> ConnectionThreshold,
     line_extension_buffer |-> LineExtensionBuffer,
     symbol_proximity_threshold |-> SymbolProximityThreshold]

\* The singleton is built with the defaults; other instances differ in
\* line_extension_buffer.
Buffers == {0, LineExtensionBuffer}

Services == { [DefaultService EXCEPT !.line_extension_buffer = b] : b \in Buffers }

NoGraph == [nodes |-> <<>>, data |-> <<>>, edges |-> <<>>]

\* No job is running: build_graph is called directly.
NoJob == [status |-> None, pages |-> <<>>, page |-> 0, page_symbols |-> <<>>, updates |-> <<>>]

\* No raster is being masked, the job has logged nothing, nobody polls.
NoClient == [since |-> 0, received |-> <<>>]

NoMaskNoLogs ==
    /\ text_elements = <<>>
    /\ gray = <<>>
    /\ result = <<>>
    /\ job_logs = <<>>
    /\ client = NoClient

----------------------------------------------------------------------------
(* The graph engine: build_graph, then graph_to_dict *)

Init ==
    /\ pc = "start"
    /\ svc \in Services
    /\ symbols \in SeqsUpTo(SymbolPool, MaxSyms)
    /\ lines \in SeqsUpTo(LinePool, MaxLines)
    /\ connections = <<>>
    /\ G = NoGraph
    /\ out = None
    /\ raw = <<>>
    /\ merged = <<>>
    /\ calls = 0
    /\ job = NoJob
    /\ NoMaskNoLogs

\* build_graph storing each node id back into its symbol dict.
BuildGraphWritingIds ==
    /\ pc = "start"
    /\ connections' = FindLineSymbolConnections(symbols, lines, svc)
    /\ G' = BuildGraphFrom(symbols, lines, connections', svc)
    /\ symbols' = [k \in 1..Len(symbols) |->
                      [symbols[k] EXCEPT !.tag = NodeId(symbols[k], k)]]
    /\ pc' = "built"
    /\ calls' = calls + 1
    /\ UNCHANGED <<svc, lines, out, raw, merged, job, text_elements, gray, result, job_logs, client>>

BuildGraph ==
    /\ pc = "start"
    /\ connections' = FindLineSymbolConnections(symbols, lines, svc)
    /\ G' = BuildGraphFrom(symbols, lines, connections', svc)
    /\ pc' = "built"
    /\ calls' = calls + 1
    /\ UNCHANGED <<svc, symbols, lines, out, raw, merged, job, text_elements, gray, result, job_logs, client>>

GraphToDictCall ==
    /\ pc = "built"
    /\ out' = GraphToDict(G)
    /\ pc' = "done"
    /\ UNCHANGED <<svc, symbols, lines, connections, G, raw, merged, calls, job, text_elements, gray, result, job_logs, client>>

Next == BuildGraph \/ GraphToDictCall

Spec == Init /\ [][Next]_vars

----------------------------------------------------------------------------
(* The collinear merger *)

InitMerge ==
    /\ pc = "start"
    /\ svc = DefaultService
    /\ symbols = <<>>
    /\ lines = <<>>
    /\ connections = <<>>
    /\ G = NoGraph
    /\ out = None
    /\ raw \in SeqsUpTo(RawPool, MaxSegs)
    /\ merged = <<>>
    /\ calls = 0
    /\ job = NoJob
    /\ NoMaskNoLogs

MergeCall ==
    /\ pc = "start"
    /\ merged' = MergeCollinearLines(raw)
    /\ pc' = "merged"
    /\ UNCHANGED <<svc, symbols, lines, connections, G, out, raw, calls, job, text_elements, gray, result, job_logs, client>>

NextMerge == MergeCall

SpecMerge == InitMerge /\ [][NextMerge]_vars

----------------------------------------------------------------------------
(* The graph engine on layouts with branches, crossings and through lines *)

SymV == Sym("V", "valve", <<65, 65>>)

BranchSymbolPool == {SymA, SymB, SymV}

BranchLinePool ==
    { LineAB,
      MkLine(<<60, 10>>, <<60, 60>>),     \* T-junction on LineAB, ends at V
      MkLine(<<15, 65>>, <<115, 65>>),    \* through V, both ends 50 px from it
      MkLine(<<105, 30>>, <<105, 80>>),   \* starts 20 px off LineAB's end
      MkLine(<<130, 10>>, <<150, 10>>) }  \* starts 25 px off LineAB's end

InitBranches ==
    /\ pc = "start"
    /\ svc = DefaultService
    /\ symbols \in SeqsUpTo(BranchSymbolPool, MaxBranchSyms)
    /\ lines \in SeqsUpTo(BranchLinePool, MaxBranchLines)
    /\ connections = <<>>
    /\ G = NoGraph
    /\ out = None
    /\ raw = <<>>
    /\ merged = <<>>
    /\ calls = 0
    /\ job = NoJob
    /\ NoMaskNoLogs

SpecBranches == InitBranches /\ [][Next]_vars

----------------------------------------------------------------------------
(* The graph engine on line lists that hold zero-length segments *)

PointLinePool ==
    { LineAB,
      MkLine(<<65, 65>>, <<65, 65>>),     \* a point at the centre of V
      MkLine(<<60, 40>>, <<60, 40>>),     \* a point 25.5 px from V, off its box
      MkLine(<<60, 10>>, <<60, 10>>),     \* a point on LineAB
      MkLine(<<200, 200>>, <<200, 200>>) } \* a point far from everything

\* Values of line_extension_buffer a service may be built with.
BufferValues == {0, 1, LineExtensionBuffer, 100}

InitPoints ==
    /\ pc = "start"
    /\ svc \in { [DefaultService EXCEPT !.line_extension_buffer = b] : b \in BufferValues }
    /\ symbols \in SeqsUpTo(BranchSymbolPool, MaxPointSyms)
    /\ lines \in SeqsUpTo(PointLinePool, MaxPointLines)
    /\ connections = <<>>
    /\ G = NoGraph
    /\ out = None
    /\ raw = <<>>
    /\ merged = <<>>
    /\ calls = 0
    /\ job = NoJob
    /\ NoMaskNoLogs

SpecPoints == InitPoints /\ [][Next]_vars

----------------------------------------------------------------------------
(* Repeated calls on the module's one service object *)

InitCalls == Init /\ svc = DefaultService

\* The caller drops the results of the finished call and calls build_graph
\* on the same service object again, passing the same two lists.
CallAgain ==
    /\ pc = "done"
    /\ calls < MaxCalls
    /\ pc' = "start"
    /\ connections' = <<>>
    /\ G' = NoGraph
    /\ out' = None
    /\ UNCHANGED <<svc, symbols, lines, raw, merged, calls, job, text_elements, gray, result, job_logs, client>>

NextCalls == BuildGraph \/ GraphToDictCall \/ CallAgain

SpecCalls == InitCalls /\ [][NextCalls]_vars

----------------------------------------------------------------------------
(* routes.add_log and routes.get_analysis_logs for one job.  In SpecLogs   *)
(* the n-th message appended is the number n.                              *)

LogLimit == 200   \* a list of this length is cut before the next append
LogKeep == 100    \* entries kept by the cut
MaxMessages == 202   \* messages appended in SpecLogs

JobId == "job-1"

\* add_log(job_id, message): the job's list is created when missing, cut to
\* its last 100 entries once it holds 200, and the message is appended.
AddLog(logs, message) ==
    LET have == IF JobId \notin DOMAIN logs THEN <<>> ELSE logs[JobId]
        kept == IF Len(have) >= LogLimit
                THEN SubSeq(have, Len(have) - LogKeep + 1, Len(have))
                ELSE have
    IN  [id \in {JobId} |-> Append(kept, message)]

\* add_log called for each message in turn.
RECURSIVE AddLogs(_, _)
AddLogs(logs, messages) ==
    IF messages = <<>> THEN logs
    ELSE AddLogs(AddLog(logs, Head(messages)), Tail(messages))

\* get_analysis_logs(job_id, since): logs[since:] and len(logs).
GetAnalysisLogs(logs, since) ==
    IF JobId \notin DOMAIN logs THEN [logs |-> <<>>, total |-> 0]
    ELSE [logs |-> SubSeq(logs[JobId], since + 1, Len(logs[JobId])),
          total |-> Len(logs[JobId])]

\* Messages appended so far.
Appended ==
    IF JobId \notin DOMAIN job_logs THEN 0 ELSE job_logs[JobId][Len(job_logs[JobId])]

InitLogs ==
    /\ pc = "start"
    /\ svc = DefaultService
    /\ symbols = <<>>
    /\ lines = <<>>
    /\ connections = <<>>
    /\ G = NoGraph
    /\ out = None
    /\ raw = <<>>
    /\ merged = <<>>
    /\ calls = 0
    /\ job = NoJob
    /\ NoMaskNoLogs

AddLogCall ==
    /\ Appended < MaxMessages
    /\ job_logs' = AddLog(job_logs, Appended + 1)
    /\ pc' = "logged"
    /\ UNCHANGED <<svc, symbols, lines, connections, G, out, raw, merged, calls, job,
                   text_elements, gray, result, client>>

\* One poll: the client passes the total of its previous poll as since,
\* keeps the logs it gets and remembers the new total.
Poll ==
    /\ LET r == GetAnalysisLogs(job_logs, client.since)
       IN  client' = [since |-> r.total, received |-> client.received \o r.logs]
    /\ pc' = "polled"
    /\ UNCHANGED <<svc, symbols, lines, connections, G, out, raw, merged, calls, job,
                   text_elements, gray, result, job_logs>>

NextLogs == AddLogCall \/ Poll

SpecLogs == InitLogs /\ [][NextLogs]_vars

----------------------------------------------------------------------------
(* routes.run_analysis: one job, from its creation to completed or failed. *)
(* symbols and lines are all_components and all_lines; raw and merged are  *)
(* the current page's lines before and after merge_collinear_lines.        *)

\* A page image, carried as what the detectors find on it: the symbols
\* after text association and the segments detect_lines returns.
PageAB ==
    [symbols  |-> <<SymA, SymB>>,
     segments |-> << MkLine(<<15, 10>>, <<60, 10>>), MkLine(<<65, 10>>, <<105, 10>>) >>]

PageValve == [symbols |-> << Sym(None, "valve", <<90, 10>>) >>, segments |-> <<>>]

PageStub == [symbols |-> <<>>, segments |-> << MkLine(<<10, 0>>, <<10, 12>>) >>]

PagePool == {PageAB, PageValve, PageStub}

\* images = pid_processor.pdf_to_images(pid_path): any page list.
PageLists == UNION { [1..k -> PagePool] : k \in 0..MaxPages }

\* d["page_number"] = page_num
StampPage(d, n) == [page_number |-> n] @@ d

StampAll(ds, n) == [k \in 1..Len(ds) |-> StampPage(ds[k], n)]

\* The page loop ends after its first pass.
MorePagesNever(j) == FALSE

\* for page_idx, img in enumerate(images): another iteration follows.
MorePages(j) == j.page < Len(j.pages)

\* The page's progress counted down from the last page instead of up.
PageProgressCountdown(idx, n) == 10 + ((n - idx) * 50) \div n

\* 10 + (page_idx * 50 // len(images)), page_idx counted from 0.
PageProgress(idx, n) == 10 + (idx * 50) \div n

\* await pid_repository.update_job_status(job_id, status, progress): the
\* call is recorded in the order issued; progress is None when not passed.
UpdateJobStatus(j, status, progress) ==
    [j EXCEPT !.status = status,
              !.updates = Append(@, [status |-> status, progress |-> progress])]

Rule == "=================================================="

Dashes == "----------------------------------------"

InitRun ==
    /\ pc = "begin"
    /\ svc = DefaultService
    /\ symbols = <<>>
    /\ lines = <<>>
    /\ connections = <<>>
    /\ G = NoGraph
    /\ out = None
    /\ raw = <<>>
    /\ merged = <<>>
    /\ calls = 0
    /\ \E ps \in PageLists :
          job = [status |-> "pending", pages |-> ps, page |-> 0, page_symbols |-> <<>>,
                 updates |-> <<>>]
    /\ NoMaskNoLogs

StartProcessing ==
    /\ pc = "begin"
    /\ job' = UpdateJobStatus(job, "processing", 10)
    /\ job_logs' = AddLogs(job_logs,
          <<Rule, "Starting P&ID Analysis Pipeline", Rule,
            "Step 1: Converting PDF to images + Starting SOP parsing (parallel)...">>)
    /\ pc' = "convert"
    /\ UNCHANGED <<svc, symbols, lines, connections, G, out, raw, merged, calls,
                   text_elements, gray, result, client>>

PdfToImages ==
    /\ pc = "convert"
    /\ job_logs' = AddLog(job_logs,
          "  -> Converted PDF to " \o ToString(Len(job.pages)) \o " page(s)")
    /\ pc' = IF MorePages(job) THEN "detect_symbols" ELSE "pages_done"
    /\ UNCHANGED <<svc, symbols, lines, connections, G, out, raw, merged, calls, job,
                   text_elements, gray, result, client>>

\* Steps 2 to 4 of the page: symbol detection, OCR, tag association.  The
\* pages carry no text, so OCR finds nothing and the detector's tags stay.
DetectSymbols ==
    /\ pc = "detect_symbols"
    /\ LET found == StampAll(job.pages[job.page + 1].symbols, job.page + 1)
           tagged == Cardinality({k \in 1..Len(found) : found[k].tag # None})
       IN  /\ job' = [UpdateJobStatus(job, "processing",
                                      PageProgress(job.page, Len(job.pages)))
                          EXCEPT !.page_symbols = found]
           /\ job_logs' = AddLogs(job_logs,
                 <<Dashes,
                   "Processing Page " \o ToString(job.page + 1) \o "/"
                       \o ToString(Len(job.pages)),
                   Dashes,
                   "  Step 2: Detecting symbols (YOLO/Roboflow)...",
                   "    -> Found " \o ToString(Len(found)) \o " symbols",
                   "  Step 3: Detecting text (OCR)...",
                   "    -> Found 0 text elements",
                   "  Step 4: Associating text with symbols...",
                   "    -> " \o ToString(tagged) \o "/" \o ToString(Len(found))
                       \o " symbols tagged">>)
    /\ pc' = "detect_lines"
    /\ UNCHANGED <<svc, symbols, lines, connections, G, out, raw, merged, calls,
                   text_elements, gray, result, client>>

DetectLines ==
    /\ pc = "detect_lines"
    /\ job_logs' = AddLog(job_logs, "  Step 5: Detecting lines (with masking)...")
    /\ raw' = job.pages[job.page + 1].segments
    /\ pc' = "merge_lines"
    /\ UNCHANGED <<svc, symbols, lines, connections, G, out, merged, calls, job,
                   text_elements, gray, result, client>>

MergeLines ==
    /\ pc = "merge_lines"
    /\ merged' = MergeCollinearLines(raw)
    /\ job_logs' = AddLog(job_logs,
          "    -> Found " \o ToString(Len(merged')) \o " lines/connections")
    /\ pc' = "collect"
    /\ UNCHANGED <<svc, symbols, lines, connections, G, out, raw, calls, job,
                   text_elements, gray, result, client>>

\* The end of the loop body: page numbers on the lines, the page's lists
\* appended to the aggregated ones, then the next page or the loop's exit.
CollectPage ==
    /\ pc = "collect"
    /\ symbols' = symbols \o job.page_symbols
    /\ lines' = lines \o StampAll(merged, job.page + 1)
    /\ job' = [job EXCEPT !.page = job.page + 1]
    /\ pc' = IF MorePages(job') THEN "detect_symbols" ELSE "pages_done"
    /\ UNCHANGED <<svc, connections, G, out, raw, merged, calls,
                   text_elements, gray, result, job_logs, client>>

SaveComponents ==
    /\ pc = "pages_done"
    /\ job_logs' = AddLogs(job_logs,
          <<Rule, "Page Processing COMPLETE",
            "  Total components: " \o ToString(Len(symbols)),
            "  Total text elements: 0",
            "  Total lines: " \o ToString(Len(lines)),
            "  Annotated images: " \o ToString(Len(job.pages))>>)
    /\ job' = UpdateJobStatus(job, "processing", 60)
    /\ pc' = "gather"
    /\ UNCHANGED <<svc, symbols, lines, connections, G, out, raw, merged, calls,
                   text_elements, gray, result, client>>

\* Step 6.  build_graph_async inside asyncio.gather: build_graph, then
\* graph_to_dict, with no await in between; the spec extraction finds no
\* specs on pages without text.
BuildGraphAsync ==
    /\ pc = "gather"
    /\ job' = UpdateJobStatus(job, "processing", 70)
    /\ connections' = FindLineSymbolConnections(symbols, lines, svc)
    /\ G' = BuildGraphFrom(symbols, lines, connections', svc)
    /\ out' = GraphToDict(G')
    /\ calls' = calls + 1
    /\ job_logs' = AddLogs(job_logs,
          <<Rule, "Step 6: Building graph + Extracting specs (parallel)...",
            "  -> Graph built: " \o ToString(out'.stats.node_count) \o " nodes, "
                \o ToString(out'.stats.edge_count) \o " edges",
            "  -> Extracted 0 equipment specs from P&ID",
            "  -> SOP parsed">>)
    /\ pc' = "save_graph"
    /\ UNCHANGED <<svc, symbols, lines, raw, merged, text_elements, gray, result, client>>

\* The graph is saved, then step 7 up to the cross-reference call.
CrossReference ==
    /\ pc = "save_graph"
    /\ job' = UpdateJobStatus(job, "processing", 90)
    /\ job_logs' = AddLogs(job_logs, <<Rule, "Step 7: Cross-referencing P&ID vs SOP...">>)
    /\ pc' = "cross_reference"
    /\ UNCHANGED <<svc, symbols, lines, connections, G, out, raw, merged, calls,
                   text_elements, gray, result, client>>

Complete ==
    /\ pc = "cross_reference"
    /\ job' = UpdateJobStatus(job, "completed", 100)
    /\ job_logs' = AddLogs(job_logs, <<Rule, "ANALYSIS COMPLETE", Rule>>)
    /\ pc' = "finished"
    /\ UNCHANGED <<svc, symbols, lines, connections, G, out, raw, merged, calls,
                   text_elements, gray, result, client>>

\* except Exception: any step of the try block that calls a detector, the
\* repository or a parser may raise; add_log and update_job_status do not
\* (update_job_status catches its own exceptions).
Fail ==
    /\ pc \notin {"begin", "finished", "failed"}
    /\ job_logs' = AddLogs(job_logs, <<Rule, "ANALYSIS FAILED", Rule>>)
    /\ job' = UpdateJobStatus(job, "failed", None)
    /\ pc' = "failed"
    /\ UNCHANGED <<svc, symbols, lines, connections, G, out, raw, merged, calls,
                   text_elements, gray, result, client>>

NextRun ==
    \/ StartProcessing \/ PdfToImages
    \/ DetectSymbols \/ DetectLines \/ MergeLines \/ CollectPage
    \/ SaveComponents \/ BuildGraphAsync \/ CrossReference \/ Complete
    \/ Fail

SpecRun == InitRun /\ [][NextRun]_vars

----------------------------------------------------------------------------
(* LineDetectionService._mask_symbols_and_text.  A raster is a function    *)
(* row -> column -> gray value, rows and columns numbered from 0.          *)

SymbolPadding == 5   \* padding of a symbol's box in the mask
TextPadding == 3     \* padding of a text's box in the mask

Max2(a, b) == IF a >= b THEN a ELSE b

\* The indices a basic slice lo:hi selects on an axis of length n: a
\* negative bound counts from the end of the axis, and both bounds are
\* clipped to 0..n.
SliceIndices(lo, hi, n) ==
    LET norm(v) == IF v < 0 THEN Max2(0, v + n) ELSE Min2(v, n)
    IN  {k \in 0..(n - 1) : norm(lo) <= k /\ k < norm(hi)}

Height(img) == Cardinality(DOMAIN img)

Width(img) == IF Height(img) = 0 THEN 0 ELSE Cardinality(DOMAIN img[0])

\* int(np.argmax(hist)): the gray value most pixels have, the least such
\* value on a tie.
BackgroundColor(img) ==
    LET vals == {img[y][x] : y \in DOMAIN img, x \in 0..(Width(img) - 1)}
        n(v) == Cardinality({<<x, y>> \in (0..(Width(img) - 1)) \X DOMAIN img : img[y][x] = v})
    IN  CHOOSE v \in vals : \A u \in vals : n(u) < n(v) \/ (n(u) = n(v) /\ v <= u)

\* result[y1:y2, x1:x2] = background_color for one bbox, x1 and y1 bounded
\* below by 0, x2 and y2 bounded above by the image's shape.
FillBox(img, shape, bbox, padding, colour) ==
    LET x1 == Max2(0, bbox[1] - padding)
        y1 == Max2(0, bbox[2] - padding)
        x2 == Min2(shape[2], bbox[1] + bbox[3] + padding)
        y2 == Min2(shape[1], bbox[2] + bbox[4] + padding)
        rows == SliceIndices(y1, y2, Height(img))
        cols == SliceIndices(x1, x2, Width(img))
    IN  [y \in DOMAIN img |->
            [x \in DOMAIN img[y] |->
                IF y \in rows /\ x \in cols THEN colour ELSE img[y][x]]]

\* One of the two `for` loops, from position k on.
RECURSIVE FillBoxes(_, _, _, _, _, _)
FillBoxes(img, shape, ds, k, padding, colour) ==
    IF k > Len(ds) THEN img
    ELSE FillBoxes(FillBox(img, shape, ds[k].bbox, padding, colour),
                   shape, ds, k + 1, padding, colour)

\* result = gray.copy(); the symbols' boxes, then the texts' boxes.
MaskSymbolsAndText(img, syms, texts) ==
    LET shape == <<Height(img), Width(img)>>
        colour == BackgroundColor(img)
    IN  FillBoxes(FillBoxes(img, shape, syms, 1, SymbolPadding, colour),
                  shape, texts, 1, TextPadding, colour)

\* A white page with a pipe along row 6 and a blot of ink, and its negative.
PageRaster(paper, ink) ==
    [y \in 0..(ImageHeight - 1) |->
        [x \in 0..(ImageWidth - 1) |->
            IF y = 6 \/ (x \in 8..10 /\ y \in 5..7) \/ (x + y) % 7 = 0 THEN ink ELSE paper]]

RasterPool == {PageRaster(255, 0), PageRaster(0, 255)}

BoxOf(bbox) ==
    [tag |-> None, type |-> "valve", bbox |-> bbox,
     center |-> <<bbox[1] + bbox[3] \div 2, bbox[2] + bbox[4] \div 2>>]

MaskSymbolPool ==
    { BoxOf(<<8, 5, 3, 3>>),          \* inside, on the blot
      BoxOf(<<17, 11, 6, 6>>),        \* over the bottom right corner
      BoxOf(<<-3, -2, 6, 5>>),        \* over the top left corner
      BoxOf(<<40, 5, 5, 5>>),         \* wholly to the right of the raster
      BoxOf(<<-30, 5, 10, 3>>),       \* wholly to the left of the raster
      BoxOf(<<5, -30, 3, 10>>) }      \* wholly above the raster

MaskTextPool ==
    { [text |-> "P-101", bbox |-> <<2, 2, 4, 1>>],      \* inside
      [text |-> "NOTE", bbox |-> <<-20, 1, 5, 2>>] }    \* wholly to the left

InitMask ==
    /\ pc = "start"
    /\ svc = DefaultService
    /\ symbols \in SeqsUpTo(MaskSymbolPool, MaxMaskSyms)
    /\ lines = <<>>
    /\ connections = <<>>
    /\ G = NoGraph
    /\ out = None
    /\ raw = <<>>
    /\ merged = <<>>
    /\ calls = 0
    /\ job = NoJob
    /\ text_elements \in SeqsUpTo(MaskTextPool, MaxMaskTexts)
    /\ gray \in RasterPool
    /\ result = <<>>
    /\ job_logs = <<>>
    /\ client = NoClient

MaskCall ==
    /\ pc = "start"
    /\ result' = MaskSymbolsAndText(gray, symbols, text_elements)
    /\ pc' = "masked"
    /\ UNCHANGED <<svc, symbols, lines, connections, G, out, raw, merged, calls, job,
                   text_elements, gray, job_logs, client>>

NextMask == MaskCall

SpecMask == InitMask /\ [][NextMask]_vars

----------------------------------------------------------------------------
(* Properties of the graph engine (checked under Spec) *)

\* The derived node ids of the symbol list are pairwise distinct.
IdsDistinct ==
    \A a, b \in 1..Len(symbols) :
        a # b => SymbolLookup(symbols)[a] # SymbolLookup(symbols)[b]

HasTag(sym) == sym.tag # None /\ sym.tag # ""

\* No two symbols carry the same tag.
TagsDistinct ==
    \A a, b \in 1..Len(symbols) :
        (a # b /\ HasTag(symbols[a]) /\ HasTag(symbols[b])) => symbols[a].tag # symbols[b].tag

EdgePair(e) == {e.source, e.target}

\* C1: with pairwise distinct node ids, the edge list of graph_to_dict holds
\* at most one edge per unordered pair of node ids, whichever of the three
\* sources the edges come from.
C1_AtMostOneEdgePerPair ==
    (pc = "done" /\ IdsDistinct) =>
        \A a, b \in 1..Len(out.edges) :
            a # b => EdgePair(out.edges[a]) # EdgePair(out.edges[b])

\* The centres c1, c2 are nearer than 100 px and their x- or y-offset is
\* below 50 px.
CloseAndAligned(c1, c2) ==
    /\ Dist2(c1, c2) < 100 * 100
    /\ (Abs(c1[1] - c2[1]) < 50 \/ Abs(c1[2] - c2[2]) < 50)

SomePairCloseAndAligned ==
    \E i, j \in 1..Len(symbols) :
        i < j /\ CloseAndAligned(symbols[i].center, symbols[j].center)

\* C2 as stated: with an empty lines list the graph has zero edges,
\* whatever the positions of the symbols.
C2_NoLinesNoEdges ==
    (pc = "done" /\ lines = <<>>) => (out.edges = <<>> /\ out.stats.edge_count = 0)

\* C2, amended: with an empty lines list the graph has no pipe edge; every
\* edge is a proximity edge from a symbol to a later symbol whose centres
\* are close and aligned, and there are zero edges exactly when the symbol
\* list has no such pair.
C2_NoLinesOnlyProximity ==
    (pc = "done" /\ lines = <<>>) =>
        /\ \A k \in 1..Len(out.edges) :
              /\ out.edges[k].type = "proximity"
              /\ \E i, j \in 1..Len(symbols) :
                    /\ i < j
                    /\ CloseAndAligned(symbols[i].center, symbols[j].center)
                    /\ out.edges[k].source = SymbolLookup(symbols)[i]
                    /\ out.edges[k].target = SymbolLookup(symbols)[j]
        /\ (out.stats.edge_count = 0 <=> ~ SomePairCloseAndAligned)
        /\ out.stats.edge_count = Len(out.edges)

C2_Witness ==
    /\ pc = "done" /\ lines = <<>> /\ Len(symbols) >= 2
    /\ out.stats.edge_count > 0
    /\ \E i, j \in 1..Len(symbols) :
          i < j /\ ~ CloseAndAligned(symbols[i].center, symbols[j].center)

\* C3: with pairwise distinct node ids, no edge of the output joins a node
\* to itself.
C3_NoSelfLoops ==
    (pc = "done" /\ IdsDistinct) =>
        \A k \in 1..Len(out.edges) : out.edges[k].source # out.edges[k].target

\* A line whose nearest start-side and end-side candidates are one and the
\* same symbol, in a graph that has a direct and a chain edge.
C3_Witness ==
    /\ pc = "done" /\ IdsDistinct
    /\ \E i \in 1..Len(connections) :
          /\ NearestOnSide(connections[i], "start") # 0
          /\ NearestOnSide(connections[i], "start") = NearestOnSide(connections[i], "end")
    /\ \E k \in 1..Len(out.edges) :
          "connection_type" \in DOMAIN out.edges[k] /\ out.edges[k].connection_type = "direct"
    /\ \E k \in 1..Len(out.edges) :
          "connection_type" \in DOMAIN out.edges[k] /\ out.edges[k].connection_type = "chain"

\* Node k of the output is the node of symbol k: its id is the tag, or
\* "{type}_{index}" for an untagged symbol, and it carries the symbol's
\* attributes (a missing tag is left out of the dict).
NodeOfSymbol(k) ==
    LET n == out.nodes[k]
        sym == symbols[k]
    IN  /\ n.id = (IF HasTag(sym) THEN sym.tag ELSE sym.type \o "_" \o ToString(k - 1))
        /\ n.type = sym.type /\ n.bbox = sym.bbox /\ n.center = sym.center
        /\ IF sym.tag = None THEN "tag" \notin DOMAIN n ELSE n.tag = sym.tag

OneNodePerSymbol ==
    /\ out.stats.node_count = Len(symbols)
    /\ Len(out.nodes) = Len(symbols)
    /\ \A k \in 1..Len(symbols) : NodeOfSymbol(k)

\* C4 as stated: when no two symbols carry the same tag there is exactly one
\* node per symbol.
C4_OneNodePerSymbolTags == (pc = "done" /\ TagsDistinct) => OneNodePerSymbol

\* C4, amended: when the derived node ids are pairwise distinct there is
\* exactly one node per symbol, with that symbol's id and attributes.
C4_OneNodePerSymbolIds == (pc = "done" /\ IdsDistinct) => OneNodePerSymbol

C4_Witness ==
    /\ pc = "done" /\ IdsDistinct /\ Len(symbols) = 3
    /\ \E k \in 1..3 : HasTag(symbols[k])
    /\ \E k \in 2..3 : ~ HasTag(symbols[k])

\* C7 (two calls on identical inputs give identical output) compares two
\* evaluations of GraphToDict(BuildGraphFrom(...)) on the same arguments; no
\* formula over this model can tell the code's determinism from its absence.

\* C8: scenario A.  With the default thresholds, symbols A and B and the one
\* line from (15,10) to (105,10) give exactly one edge, A -> B, tagged
\* direct, and nothing else.
C8_ScenarioA ==
    (pc = "done" /\ svc = DefaultService
        /\ symbols = <<SymA, SymB>> /\ lines = <<LineAB>>) =>
        /\ out.edges = << [source |-> "A", target |-> "B", type |-> "pipe",
                           line_index |-> 0, connection_type |-> "direct"] >>
        /\ out.stats.edge_count = 1

C8_Witness ==
    /\ pc = "done" /\ svc = DefaultService
    /\ symbols = <<SymA, SymB>> /\ lines = <<LineAB>>
    /\ Len(out.edges) = 1

\* Symbol k has no line endpoint nearer than connection_threshold to its
\* centre and no other symbol's centre nearer than
\* symbol_proximity_threshold.
Secluded(k) ==
    /\ \A i \in 1..Len(lines) :
          /\ Dist2(lines[i].start, symbols[k].center)
                 >= svc.connection_threshold * svc.connection_threshold
          /\ Dist2(lines[i].end, symbols[k].center)
                 >= svc.connection_threshold * svc.connection_threshold
    /\ \A j \in 1..Len(symbols) :
          j # k => Dist2(symbols[j].center, symbols[k].center)
                       >= svc.symbol_proximity_threshold * svc.symbol_proximity_threshold

Incident(id) ==
    {k \in 1..Len(out.edges) : out.edges[k].source = id \/ out.edges[k].target = id}

IdShared(k) ==
    \E j \in 1..Len(symbols) :
        j # k /\ SymbolLookup(symbols)[j] = SymbolLookup(symbols)[k]

\* C9 as stated: a secluded symbol is a node with no incident edge, whatever
\* the other symbols and lines are.
C9_SecludedIsIsolated ==
    pc = "done" =>
        \A k \in 1..Len(symbols) :
            Secluded(k) => Incident(SymbolLookup(symbols)[k]) = {}

\* C9, amended: a secluded symbol whose node id no other symbol shares is a
\* node with no incident edge.
C9_SecludedUniqueIsIsolated ==
    pc = "done" =>
        \A k \in 1..Len(symbols) :
            (Secluded(k) /\ ~ IdShared(k)) =>
                /\ Incident(SymbolLookup(symbols)[k]) = {}
                /\ \E n \in 1..Len(out.nodes) : out.nodes[n].id = SymbolLookup(symbols)[k]

C9_Witness ==
    /\ pc = "done" /\ Len(lines) >= 1 /\ out.edges # <<>>
    /\ \E k \in 1..Len(symbols) : Secluded(k) /\ ~ IdShared(k)

\* The candidates step 3 records for line i of the same symbols and lines
\* under a line_extension_buffer of b.
CandidatesWithBuffer(i, b) ==
    LineCandidates(lines[i], ExtendLine(lines[i].start, lines[i].end, b),
                   symbols, 1, svc.connection_threshold)

Recorded(cands) == {cands[k] : k \in 1..Len(cands)}

\* C10: every candidate (line, symbol, endpoint) recorded with a buffer of 0
\* is recorded, with the same distance, under the service's own buffer and
\* under buffers of 60 and 200 px.
C10_BufferMonotone ==
    pc = "built" =>
        \A i \in 1..Len(lines) :
            LET unextended == Recorded(CandidatesWithBuffer(i, 0))
            IN  /\ unextended \subseteq Recorded(connections[i])
                /\ \A b \in {2 * LineExtensionBuffer, 200} :
                      unextended \subseteq Recorded(CandidatesWithBuffer(i, b))

\* A positive buffer that keeps a line's buffer-0 candidates and adds one.
C10_Witness ==
    /\ pc = "built" /\ svc.line_extension_buffer > 0
    /\ \E i \in 1..Len(lines) :
          /\ CandidatesWithBuffer(i, 0) # <<>>
          /\ Recorded(CandidatesWithBuffer(i, 0)) # Recorded(connections[i])

\* C11: every edge of the output carries a connection_type that is direct,
\* chain or proximity and a type that is pipe or proximity, whichever of the
\* three sources it comes from.
C11_EdgeAttributes ==
    pc = "done" =>
        \A k \in 1..Len(out.edges) :
            /\ "connection_type" \in DOMAIN out.edges[k]
            /\ out.edges[k].connection_type \in {"direct", "chain", "proximity"}
            /\ "type" \in DOMAIN out.edges[k]
            /\ out.edges[k].type \in {"pipe", "proximity"}

RECURSIVE SumOf(_, _)
SumOf(f, S) ==
    IF S = {} THEN 0
    ELSE LET x == CHOOSE y \in S : TRUE IN f[x] + SumOf(f, S \ {x})

\* C12: node_count is the length of the nodes list, edge_count the length of
\* the edges list, and components maps each node type to the number of nodes
\* of that type, so that its counts add up to node_count.
C12_StatsConsistent ==
    pc = "done" =>
        LET types == {out.nodes[k].type : k \in 1..Len(out.nodes)}
            comps == out.stats.components
        IN  /\ out.stats.node_count = Len(out.nodes)
            /\ out.stats.edge_count = Len(out.edges)
            /\ DOMAIN comps = types
            /\ \A t \in types :
                  comps[t] = Cardinality({k \in 1..Len(out.nodes) : out.nodes[k].type = t})
            /\ SumOf(comps, DOMAIN comps) = out.stats.node_count

\* Three nodes of two types, two of them of one type, and at least one edge.
C12_Witness ==
    /\ pc = "done"
    /\ Cardinality(DOMAIN out.stats.components) = 2
    /\ \E t \in DOMAIN out.stats.components : out.stats.components[t] = 2
    /\ out.stats.node_count = 3
    /\ out.stats.edge_count > 0

\* The kind of an output edge: its connection_type, or its type when it has
\* none.
KindOf(e) == IF "connection_type" \in DOMAIN e THEN e.connection_type ELSE e.type

\* The output edges that join the nodes of symbols a and b, in either
\* direction.
EdgesBetween(a, b) ==
    {k \in 1..Len(out.edges) :
        EdgePair(out.edges[k]) = {SymbolLookup(symbols)[a], SymbolLookup(symbols)[b]}}

\* Some line has a and b as its nearest start-side and end-side candidates.
QualifiesDirect(a, b) ==
    \E i \in 1..Len(connections) :
        {NearestOnSide(connections[i], "start"), NearestOnSide(connections[i], "end")} = {a, b}

\* a and b are candidates of lines of one component of the line graph.
QualifiesChain(a, b) ==
    \E i \in 1..Len(connections) :
        /\ \E c \in 1..Len(connections[i]) : connections[i][c][1] = a
        /\ \E j \in Reach(Len(lines), FindLineToLineConnections(lines, svc), {i}) :
              \E c \in 1..Len(connections[j]) : connections[j][c][1] = b

QualifiesProximity(a, b) ==
    ProximityPair(symbols[a].center, symbols[b].center, svc.symbol_proximity_threshold)

KindsOf(a, b) ==
    (IF QualifiesDirect(a, b) THEN {"direct"} ELSE {})
        \cup (IF QualifiesChain(a, b) THEN {"chain"} ELSE {})
        \cup (IF QualifiesProximity(a, b) THEN {"proximity"} ELSE {})

BestKind(kinds) ==
    IF "direct" \in kinds THEN "direct"
    ELSE IF "chain" \in kinds THEN "chain" ELSE "proximity"

\* C16: with pairwise distinct node ids, a symbol pair that qualifies for
\* more than one kind of edge is joined in the output, and every output edge
\* that joins it is of the highest-priority kind the pair qualifies for
\* (direct over chain over proximity).
C16_HighestKindSurvives ==
    (pc = "done" /\ IdsDistinct) =>
        \A a, b \in 1..Len(symbols) :
            (a < b /\ Cardinality(KindsOf(a, b)) >= 2) =>
                /\ EdgesBetween(a, b) # {}
                /\ \A k \in EdgesBetween(a, b) :
                      KindOf(out.edges[k]) = BestKind(KindsOf(a, b))

\* What does hold: such a pair has an edge of its highest-priority kind, no
\* pipe edge of a lower kind, and at most a proximity edge beside it.
C16_HighestKindPresent ==
    (pc = "done" /\ IdsDistinct) =>
        \A a, b \in 1..Len(symbols) :
            (a < b /\ Cardinality(KindsOf(a, b)) >= 2) =>
                /\ \E k \in EdgesBetween(a, b) :
                      KindOf(out.edges[k]) = BestKind(KindsOf(a, b))
                /\ \A k \in EdgesBetween(a, b) :
                      KindOf(out.edges[k]) \in {BestKind(KindsOf(a, b)), "proximity"}

\* The positions of line i's candidates on one side.
OnSide(i, side) == {c \in 1..Len(connections[i]) : connections[i][c][2] = side}

\* The symbols whose candidate on that side of line i has the least recorded
\* distance.
LeastOnSide(i, side) ==
    {connections[i][c][1] : c \in {c \in OnSide(i, side) :
        \A d \in OnSide(i, side) : connections[i][c][3] <= connections[i][d][3]}}

\* C17: for each line with a start-side and an end-side candidate, the
\* start-side and the end-side candidate of least recorded distance are
\* taken; if they are different symbols the output has an edge tagged direct
\* between exactly these two, and if they are one symbol the output has no
\* direct edge of that line.
C17_DirectEdgeOfNearest ==
    pc = "done" =>
        \A i \in 1..Len(lines) :
            (OnSide(i, "start") # {} /\ OnSide(i, "end") # {}) =>
                \E s \in LeastOnSide(i, "start"), t \in LeastOnSide(i, "end") :
                    /\ s # t => \E k \in EdgesBetween(s, t) : KindOf(out.edges[k]) = "direct"
                    /\ s = t => \A k \in 1..Len(out.edges) :
                                   ~ (/\ KindOf(out.edges[k]) = "direct"
                                      /\ out.edges[k].line_index = i - 1)

\* One line with two start-side candidates at different distances whose
\* nearest start-side and end-side symbols differ, and another line whose
\* two sides are nearest to one and the same symbol.
C17_Witness ==
    /\ pc = "done"
    /\ \E i \in 1..Len(lines) :
          /\ \E c, d \in OnSide(i, "start") : connections[i][c][3] < connections[i][d][3]
          /\ OnSide(i, "end") # {}
          /\ LeastOnSide(i, "start") \cap LeastOnSide(i, "end") = {}
    /\ \E j \in 1..Len(lines) :
          /\ OnSide(j, "start") # {}
          /\ LeastOnSide(j, "start") = LeastOnSide(j, "end")

\* The centres of symbols a and b are within symbol_proximity_threshold of
\* each other and their x-offset or y-offset is at most half of it.
NearAndAligned(a, b) ==
    LET c1 == symbols[a].center
        c2 == symbols[b].center
        thr == svc.symbol_proximity_threshold
    IN  /\ Dist2(c1, c2) < thr * thr
        /\ (2 * Abs(c1[1] - c2[1]) <= thr \/ 2 * Abs(c1[2] - c2[2]) <= thr)

\* The output edges of the given type from the node of symbol a to the node
\* of symbol b.
EdgesFromTo(a, b, type) ==
    {k \in 1..Len(out.edges) :
        /\ out.edges[k].source = SymbolLookup(symbols)[a]
        /\ out.edges[k].target = SymbolLookup(symbols)[b]
        /\ out.edges[k].type = type}

\* C19: with pairwise distinct node ids, a proximity edge joins two symbols
\* if and only if their centres are near and aligned and no pipe edge, in
\* either direction, joined them before the proximity step.
C19_ProximityIffNoEdgeYet ==
    (pc = "done" /\ IdsDistinct) =>
        \A a, b \in 1..Len(symbols) :
            a < b =>
                ((\E k \in EdgesBetween(a, b) : out.edges[k].type = "proximity")
                    <=> (/\ NearAndAligned(a, b)
                         /\ EdgesFromTo(a, b, "pipe") = {}
                         /\ EdgesFromTo(b, a, "pipe") = {}))

\* What does hold: the proximity edge runs from the earlier to the later
\* symbol of the list and is withheld only by a pipe edge in that same
\* direction.
C19_ProximityIffNoEdgeSameWay ==
    (pc = "done" /\ IdsDistinct) =>
        \A a, b \in 1..Len(symbols) :
            a < b =>
                /\ EdgesFromTo(b, a, "proximity") = {}
                /\ EdgesFromTo(a, b, "proximity") # {}
                       <=> (NearAndAligned(a, b) /\ EdgesFromTo(a, b, "pipe") = {})

\* The raw endpoint of line i named by `side`.
EndpointOf(i, side) == IF side = "start" THEN lines[i].start ELSE lines[i].end

Thr2 == svc.connection_threshold * svc.connection_threshold

\* Every recorded candidate carries the distance from its raw endpoint to
\* the symbol's centre, and that distance is below connection_threshold.
CandidatesAreNear ==
    \A i \in 1..Len(lines) : \A c \in 1..Len(connections[i]) :
        LET cand == connections[i][c]
        IN  /\ cand[3] = Dist2(EndpointOf(i, cand[2]), symbols[cand[1]].center)
            /\ cand[3] < Thr2

\* C28: the recorded candidates are exactly the (symbol, endpoint) pairs
\* whose raw endpoint is strictly within connection_threshold of the
\* symbol's centre, each with that distance, whether or not the extended
\* line meets the padded rectangle.
C28_EveryNearEndpointRecorded ==
    (pc = "built") =>
        /\ CandidatesAreNear
        /\ \A i \in 1..Len(lines), k \in 1..Len(symbols), side \in {"start", "end"} :
               Dist2(EndpointOf(i, side), symbols[k].center) < Thr2 =>
                   \E c \in 1..Len(connections[i]) :
                       connections[i][c][1] = k /\ connections[i][c][2] = side

\* What the code keeps: the candidates are near, and a near endpoint is
\* missing only if it is the end of a line whose start is near the same
\* symbol and whose extension misses the symbol's rectangle.
C28_NearEndpointRecordedUnlessElif ==
    (pc = "built") =>
        /\ CandidatesAreNear
        /\ \A i \in 1..Len(lines), k \in 1..Len(symbols), side \in {"start", "end"} :
               Dist2(EndpointOf(i, side), symbols[k].center) < Thr2 =>
                   \/ \E c \in 1..Len(connections[i]) :
                          connections[i][c][1] = k /\ connections[i][c][2] = side
                   \/ /\ side = "end"
                      /\ Dist2(lines[i].start, symbols[k].center) < Thr2
                      /\ ~ Intersects(ExtendLine(lines[i].start, lines[i].end,
                                                  svc.line_extension_buffer),
                                       SymBox(symbols[k].bbox))

----------------------------------------------------------------------------
(* Properties of the graph engine on branching layouts (checked under      *)
(* SpecBranches)                                                            *)

\* Line i has a recorded candidate for symbol k.
HasCandidate(i, k) == \E c \in 1..Len(connections[i]) : connections[i][c][1] = k

\* Some raw endpoint of line i is nearer than connection_threshold to the
\* centre of symbol k.
EndpointNear(i, k) ==
    \/ Dist2(lines[i].start, symbols[k].center)
           < svc.connection_threshold * svc.connection_threshold
    \/ Dist2(lines[i].end, symbols[k].center)
           < svc.connection_threshold * svc.connection_threshold

\* The extended line i meets the padded rectangle of symbol k.
ExtendedMeetsBox(i, k) ==
    Intersects(ExtendLine(lines[i].start, lines[i].end, svc.line_extension_buffer),
               SymBox(symbols[k].bbox))

\* C15: a candidate between a line and a symbol is recorded if and only if
\* the extended line intersects the symbol's padded rectangle or a raw
\* endpoint of the line is within connection_threshold of its centre.
C15_CandidateIffMeetsOrNear ==
    pc = "built" =>
        \A i \in 1..Len(lines), k \in 1..Len(symbols) :
            HasCandidate(i, k) <=> (ExtendedMeetsBox(i, k) \/ EndpointNear(i, k))

\* What the code records: a candidate exactly when a raw endpoint is near,
\* whether or not the extended line meets the rectangle.
C15_CandidateIffNear ==
    pc = "built" =>
        \A i \in 1..Len(lines), k \in 1..Len(symbols) :
            HasCandidate(i, k) <=> EndpointNear(i, k)

\* Lines i and j are joined by a path of at most n recorded line-to-line
\* connections.
RECURSIVE PathWithin(_, _, _, _)
PathWithin(pairs, i, j, n) ==
    \/ i = j
    \/ /\ n > 0
       /\ \E m \in 1..Len(lines) :
             /\ (<<i, m>> \in pairs \/ <<m, i>> \in pairs)
             /\ PathWithin(pairs, m, j, n - 1)

\* Symbols a and b are different and are candidates of lines of one
\* connected component of the line graph.
ShareComponent(pairs, a, b) ==
    /\ a # b
    /\ \E i, j \in 1..Len(lines) :
          /\ HasCandidate(i, a) /\ HasCandidate(j, b)
          /\ PathWithin(pairs, i, j, Len(lines) - 1)

\* C18: every two distinct symbols that are candidates of lines of one
\* component of the line graph (a component of a single line included) are
\* joined by exactly one pipe edge of the output, a chain edge unless a direct
\* edge joins them; and every chain edge joins two such symbols.
C18_ChainEdgesPerComponent ==
    pc = "done" =>
        LET pairs == FindLineToLineConnections(lines, svc)
        IN  /\ \A a, b \in 1..Len(symbols) :
                  ShareComponent(pairs, a, b) =>
                      LET pipes == {k \in EdgesBetween(a, b) : out.edges[k].type = "pipe"}
                      IN  /\ Cardinality(pipes) = 1
                          /\ \A k \in pipes : KindOf(out.edges[k]) \in {"direct", "chain"}
                          /\ (\A k \in pipes : KindOf(out.edges[k]) # "direct")
                                 => \E k \in pipes : KindOf(out.edges[k]) = "chain"
            /\ \A k \in 1..Len(out.edges) :
                  KindOf(out.edges[k]) = "chain" =>
                      \E a, b \in 1..Len(symbols) :
                          /\ ShareComponent(pairs, a, b)
                          /\ k \in EdgesBetween(a, b)

\* Three lines in two components: one of two joined lines whose three
\* symbols get a direct and two chain edges, and a symbol pair of different
\* components without a pipe edge.
C18_Witness ==
    /\ pc = "done" /\ Len(lines) = 3 /\ Len(symbols) = 3
    /\ \E i, j \in 1..3 : i < j /\ <<i, j>> \in FindLineToLineConnections(lines, svc)
    /\ \E i, j \in 1..3 :
          ~ PathWithin(FindLineToLineConnections(lines, svc), i, j, 2)
    /\ \E k \in 1..Len(out.edges) : KindOf(out.edges[k]) = "direct"
    /\ Cardinality({k \in 1..Len(out.edges) : KindOf(out.edges[k]) = "chain"}) = 2

\* Some endpoint of line i is within connection_threshold / 2 of some
\* endpoint of line j.
EndpointJunction(i, j) ==
    \E p \in {lines[i].start, lines[i].end}, q \in {lines[j].start, lines[j].end} :
        4 * Dist2(p, q) < svc.connection_threshold * svc.connection_threshold

\* The unextended segments i and j have a point in common.
CrossingJunction(i, j) ==
    SegIntersects(lines[i].start, lines[i].end, lines[j].start, lines[j].end)

\* C20: lines i < j are recorded as joined if and only if they have an
\* endpoint junction or a crossing junction, each pair is recorded at most
\* once, and the components used for the chain edges are exactly the
\* connected components of the undirected graph over all line indices with
\* the recorded pairs as edges.
C20_JunctionsAndComponents ==
    pc = "built" =>
        LET list == LineToLineList(lines, svc)
            pairs == {<<list[c][1], list[c][2]>> : c \in 1..Len(list)}
            n == Len(lines)
            comps == Components(n, FindLineToLineConnections(lines, svc))
        IN  /\ \A c \in 1..Len(list) : 1 <= list[c][1] /\ list[c][1] < list[c][2] /\ list[c][2] <= n
            /\ \A i, j \in 1..n :
                  i < j => (<<i, j>> \in pairs <=> (EndpointJunction(i, j) \/ CrossingJunction(i, j)))
            /\ \A c, d \in 1..Len(list) :
                  c # d => <<list[c][1], list[c][2]>> # <<list[d][1], list[d][2]>>
            /\ {comps[k] : k \in 1..Len(comps)}
                   = {{j \in 1..n : PathWithin(pairs, i, j, n - 1)} : i \in 1..n}
            /\ \A k, m \in 1..Len(comps) : k # m => comps[k] \cap comps[m] = {}

\* Three lines: a pair recorded as an endpoint junction, a pair recorded as
\* an intersection, and a pair that is not joined though its lines share a
\* component.
C20_Witness ==
    /\ pc = "built" /\ Len(lines) = 3
    /\ \E c \in 1..Len(LineToLineList(lines, svc)) : LineToLineList(lines, svc)[c][3] = "endpoint"
    /\ \E c \in 1..Len(LineToLineList(lines, svc)) : LineToLineList(lines, svc)[c][3] = "intersection"
    /\ Len(LineToLineList(lines, svc)) = 2
    /\ Len(Components(3, FindLineToLineConnections(lines, svc))) = 1

----------------------------------------------------------------------------
(* Properties of the graph engine on zero-length segments (checked under   *)
(* SpecPoints)                                                             *)

ZeroLength(l) == l.start = l.end

\* C23: _extend_line returns a zero-length line as it is for every buffer,
\* and build_graph on a list that holds zero-length lines runs to its end
\* and returns a graph: the symbols' nodes, a candidate list per line.
C23_ZeroLengthLines ==
    (\E i \in 1..Len(lines) : ZeroLength(lines[i])) =>
        /\ \A i \in 1..Len(lines) : \A b \in BufferValues :
               ZeroLength(lines[i]) =>
                   ExtendLine(lines[i].start, lines[i].end, b)
                       = [p |-> lines[i].start, d |-> <<0, 0>>, back |-> 0, fwd |-> 0]
        /\ pc = "built" =>
               /\ G.nodes = DistinctInOrder(SymbolLookup(symbols))
               /\ DOMAIN connections = 1..Len(lines)
               /\ \A e \in 1..Len(G.edges) :
                      InGraph(G, G.edges[e].source) /\ InGraph(G, G.edges[e].target)

\* A graph was built with a non-zero buffer from a list that holds a
\* zero-length line, and that line has a candidate symbol.
C23_Witness ==
    /\ pc = "built" /\ svc.line_extension_buffer > 0 /\ Len(G.nodes) > 0
    /\ \E i \in 1..Len(lines) : ZeroLength(lines[i]) /\ connections[i] # <<>>

----------------------------------------------------------------------------
(* Properties of run_analysis (checked under SpecRun) *)

\* all_components and all_lines as the page loop leaves them after the first
\* n pages: each page's symbols, and each page's segments merged, in page
\* order and with their page number.
RECURSIVE AllComponents(_, _)
AllComponents(pages, n) ==
    IF n = 0 THEN <<>>
    ELSE AllComponents(pages, n - 1) \o StampAll(pages[n].symbols, n)

RECURSIVE AllLines(_, _)
AllLines(pages, n) ==
    IF n = 0 THEN <<>>
    ELSE AllLines(pages, n - 1) \o StampAll(MergeCollinearLines(pages[n].segments), n)

\* C13: build_graph is invoked at most once per job; when it has been, every
\* page had been through symbol detection, line detection and merging and
\* the aggregated lists held all pages' results, and the graph is the graph
\* of those lists; a completed job has invoked it exactly once.
C13_BuildOnceAfterAllPages ==
    /\ calls <= 1
    /\ calls = 1 =>
          /\ job.page = Len(job.pages)
          /\ symbols = AllComponents(job.pages, Len(job.pages))
          /\ lines = AllLines(job.pages, Len(job.pages))
          /\ out = GraphToDict(BuildGraphFrom(symbols, lines,
                       FindLineSymbolConnections(symbols, lines, svc), svc))
    /\ job.status = "completed" => calls = 1
    /\ calls = 0 => (G = NoGraph /\ out = None)

\* A completed job of two pages, one of them with two segments that merge
\* into one line, whose graph has an edge.
C13_Witness ==
    /\ job.status = "completed" /\ calls = 1
    /\ Len(job.pages) = 2
    /\ \E n \in 1..2 : Len(job.pages[n].segments) = 2
    /\ Len(lines) < Len(job.pages[1].segments) + Len(job.pages[2].segments)
    /\ out.edges # <<>>

Terminal(u) == u.status \in {"completed", "failed"}

\* C30: the status updates of one run are processing updates of
\* non-decreasing progress, then exactly one terminal update, completed
\* with progress 100 or failed; nothing follows the terminal update, and a
\* run that failed leaves the job failed, not processing.
C30_StatusUpdatesInOrder ==
    LET u == job.updates
        n == Len(u)
    IN  /\ \A k \in 1..n : Terminal(u[k]) => k = n
        /\ \A k \in 1..n : ~ Terminal(u[k]) => u[k].status = "processing"
        /\ \A k, m \in 1..n :
               (k < m /\ ~ Terminal(u[m])) => u[k].progress <= u[m].progress
        /\ \A k \in 1..n : u[k].status = "completed" => u[k].progress = 100
        /\ pc \in {"finished", "failed"} => (n >= 1 /\ Terminal(u[n]))
        /\ pc = "failed" => (u[n].status = "failed" /\ job.status = "failed")
        /\ pc = "finished" => (u[n].status = "completed" /\ job.status = "completed")
        /\ pc \notin {"finished", "failed"} => \A k \in 1..n : ~ Terminal(u[k])

\* A run over two pages that failed after its update to progress 90: the
\* progress went 10, 10, 35, 60, 70, 90 and the last update is failed.
C30_Witness ==
    /\ pc = "failed" /\ Len(job.pages) = 2 /\ Len(job.updates) = 7
    /\ job.updates[3].progress = 35
    /\ job.updates[6].progress = 90
    /\ job.updates[7].status = "failed"

\* The pages on which a symbol with this node id was detected.
PagesOf(id) ==
    {symbols[k].page_number : k \in {n \in 1..Len(symbols) : NodeId(symbols[n], n) = id}}

\* C27: every edge of the graph run_analysis builds joins two symbols of
\* one page, and a direct pipe edge runs along a line of that same page.
C27_EdgesWithinOnePage ==
    (calls = 1) =>
        \A e \in 1..Len(G.edges) :
            \E p \in PagesOf(G.edges[e].source) \cap PagesOf(G.edges[e].target) :
                "line_index" \in DOMAIN G.edges[e].attrs =>
                    lines[G.edges[e].attrs.line_index + 1].page_number = p

----------------------------------------------------------------------------
(* Properties of repeated calls (checked under SpecCalls) *)

\* C14: a call of build_graph leaves its symbols and lines arguments and
\* the fields of the service object as they were, and the graph it returns
\* is the graph a first call on a freshly built default service returns for
\* the same arguments, however many calls went before.
C14_BuildGraphFrame ==
    [][pc' = "built" =>
          /\ symbols' = symbols
          /\ lines' = lines
          /\ svc' = svc
          /\ svc' = DefaultService
          /\ G' = BuildGraphFrom(symbols, lines,
                      FindLineSymbolConnections(symbols, lines, DefaultService),
                      DefaultService)]_vars

\* A second call has returned a graph with an edge, for a line whose
\* candidates were recorded out of distance order (the in-place sort of
\* _build_edges_from_connections has something to move) and an untagged
\* symbol.
C14_Witness ==
    /\ pc = "built" /\ calls = 2 /\ G.edges # <<>>
    /\ \E k \in 1..Len(symbols) : ~ HasTag(symbols[k])
    /\ \E i \in 1..Len(connections) :
          /\ Len(connections[i]) >= 2
          /\ connections[i][1][3] > connections[i][2][3]

----------------------------------------------------------------------------
(* Properties of the collinear merger (checked under SpecMerge) *)

Ends(l) == {l.start, l.end}

\* The three input segments have equal angle, lie on one straight line and
\* follow each other as a, b, c along it with gaps below 20 px.
OnePipeInThree(a, b, c) ==
    /\ {a, b, c} = {1, 2, 3}
    /\ \A x, y \in 1..3 : Cross(raw[x].dir, raw[y].dir) = 0 /\ Dot(raw[x].dir, raw[y].dir) > 0
    /\ \A x \in 1..3 : \A p \in Ends(raw[x]) : Orient(raw[1].start, raw[1].end, p) = 0
    /\ Dot(raw[a].end, raw[1].dir) < Dot(raw[b].start, raw[1].dir)
    /\ Dot(raw[b].end, raw[1].dir) < Dot(raw[c].start, raw[1].dir)
    /\ Dist2(raw[a].end, raw[b].start) < GapThreshold * GapThreshold
    /\ Dist2(raw[b].end, raw[c].start) < GapThreshold * GapThreshold

\* C5: three such segments, in any input order, merge into exactly one
\* segment whose endpoints are the two extreme endpoints.
C5_ThreeSegmentsOnePipe ==
    (pc = "merged" /\ Len(raw) = 3) =>
        \A a, b, c \in 1..3 :
            OnePipeInThree(a, b, c) =>
                /\ Len(merged) = 1
                /\ Ends(merged[1]) = {raw[a].start, raw[c].end}

\* The same three segments listed in the order they lie along the pipe do
\* merge into one.
C5_InOrderMerges ==
    (pc = "merged" /\ Len(raw) = 3 /\ OnePipeInThree(1, 2, 3)) =>
        /\ Len(merged) = 1
        /\ Ends(merged[1]) = {raw[1].start, raw[3].end}

\* Both tests of the scan: the wrapped angular difference and the least of
\* the four endpoint distances are at most their thresholds.
Passes(cur, l) ==
    /\ ~ AngleDiffExceeds(cur.dir, l.dir)
    /\ MinEndpointGap2(cur, l) <= GapThreshold * GapThreshold

LeastOf(S) == CHOOSE m \in S : \A n \in S : m <= n

\* The accumulated segment just before position j is scanned: cur after it
\* absorbed, in input order, the members ms that lie before j.
RECURSIVE AccBefore(_, _, _)
AccBefore(cur, ms, j) ==
    IF {m \in ms : m < j} = {} THEN cur
    ELSE LET m == LeastOf(ms)
         IN  AccBefore(MergeTwoLines(cur, raw[m]), ms \ {m}, j)

\* f maps each input position to the output position that consumed it.
Members(f, k) == {j \in DOMAIN f : f[j] = k}

Consumers == [1..Len(raw) -> 1..Len(merged)]

\* f is the outcome of one greedy pass: output k starts at the first input
\* no earlier output consumed, and an input still free when scanned joins
\* k exactly if it passes both tests against k as accumulated so far.
GreedyPass(f) ==
    \A k \in 1..Len(merged) :
        /\ Members(f, k) # {}
        /\ LET s == LeastOf(Members(f, k))
               rest == Members(f, k) \ {s}
           IN  /\ s = LeastOf({j \in DOMAIN f : f[j] >= k})
               /\ \A j \in DOMAIN f :
                      (j # s /\ f[j] >= k) =>
                          (f[j] = k <=> Passes(AccBefore(raw[s], rest, j), raw[j]))
               /\ merged[k] = AccBefore(raw[s], rest, Len(raw) + 1)

\* C21: merge_collinear_lines is a single greedy pass in input order; a
\* segment that fails a test when it is scanned is not absorbed, whatever
\* the accumulated segment becomes afterwards.
C21_SingleGreedyPass ==
    (pc = "merged") => \E f \in Consumers : GreedyPass(f)

\* A segment was refused by the first accumulated segment when scanned,
\* passes both tests against what that segment finally became, and still
\* is an output of its own.
C21_Witness ==
    /\ pc = "merged" /\ Len(raw) = 3 /\ Len(merged) = 2
    /\ ~ Passes(raw[1], raw[2])
    /\ Passes(raw[1], raw[3])
    /\ merged[1] = MergeTwoLines(raw[1], raw[3])
    /\ Passes(merged[1], raw[2])
    /\ merged[2] = raw[2]

\* Under f every output is what its starter became after absorbing the
\* rest of its members in input order, and the outputs are listed in the
\* input order of their starters.
ConsumedOnce(f) ==
    \A k \in 1..Len(merged) :
        /\ Members(f, k) # {}
        /\ LET s == LeastOf(Members(f, k))
           IN  merged[k] = AccBefore(raw[s], Members(f, k) \ {s}, Len(raw) + 1)
        /\ k < Len(merged) =>
               Members(f, k + 1) # {} /\ LeastOf(Members(f, k)) < LeastOf(Members(f, k + 1))

Absorbed(f) == {j \in DOMAIN f : j # LeastOf(Members(f, f[j]))}

MergedConsumesAll ==
    /\ \E f \in Consumers :
           /\ ConsumedOnce(f)
           /\ Len(merged) = Len(raw) - Cardinality(Absorbed(f))
    /\ Len(merged) <= Len(raw)
    /\ Len(raw) > 0 => Len(merged) >= 1

\* C25: merge_collinear_lines consumes every input segment in exactly one
\* output, as its starter or absorbed; the output count is the input count
\* less the absorptions, the outputs follow the input order of their
\* starters, and the input list is left as it was.
C25_EveryInputConsumedOnce ==
    /\ [](pc = "merged" => MergedConsumesAll)
    /\ [][raw' = raw]_vars

\* Three inputs, one absorption: the first stayed alone and the second
\* absorbed the third.
C25_Witness ==
    /\ pc = "merged" /\ Len(raw) = 3 /\ Len(merged) = 2
    /\ merged[1] = raw[1]
    /\ merged[2] = MergeTwoLines(raw[2], raw[3])
    /\ merged[2] # raw[2]

\* The same segment listed end first: its angle turns by 180 degrees.
Reversed(l) == MkLine(l.end, l.start)

ReversedAt(ls, k) == [ls EXCEPT ![k] = Reversed(ls[k])]

\* A list of segments as geometry: each segment as its pair of endpoints.
Geometry(ls) == {Ends(ls[k]) : k \in 1..Len(ls)}

\* C26: listing one input segment end first instead of start first leaves
\* the set of merged segments, up to their endpoint order, as it was.
C26_DirectionIndependent ==
    (pc = "merged") =>
        \A k \in 1..Len(raw) :
            Geometry(MergeCollinearLines(ReversedAt(raw, k))) = Geometry(merged)

\* The four endpoints _merge_two_lines chooses from.
FourPoints(l1, l2) == <<l1.start, l1.end, l2.start, l2.end>>

\* C22: the segment _merge_two_lines returns runs between two of the four
\* input endpoints, no two of the four are farther apart, and its length,
\* angle and type are those of that pair.
C22_MergedFromFarthestPair ==
    (pc = "merged" /\ Len(raw) = 2 /\ Len(merged) = 1) =>
        LET m == merged[1]
            points == FourPoints(raw[1], raw[2])
        IN  /\ \E a, b \in 1..4 : a # b /\ m.start = points[a] /\ m.end = points[b]
            /\ \A a, b \in 1..4 : Dist2(points[a], points[b]) <= Dist2(m.start, m.end)
            /\ m.len2 = Dist2(m.start, m.end)
            /\ m.dir = Dir(m.start, m.end)
            /\ m.type = LineType(Dir(m.start, m.end))

\* Two horizontal segments merged into a diagonal one: length, angle and
\* type all differ from both inputs.
C22_Witness ==
    /\ pc = "merged" /\ Len(raw) = 2 /\ Len(merged) = 1
    /\ raw[1].type = "horizontal" /\ raw[2].type = "horizontal"
    /\ merged[1].type = "diagonal"
    /\ merged[1].dir \notin {raw[1].dir, raw[2].dir}
    /\ merged[1].len2 \notin {raw[1].len2, raw[2].len2}

\* Two segments whose angles differ by less than the threshold and whose
\* nearest endpoints are less than gap_threshold apart.
MergeablePair ==
    /\ Len(raw) = 2
    /\ ~ AngleDiffExceeds(raw[1].dir, raw[2].dir)
    /\ MinEndpointGap2(raw[1], raw[2]) < GapThreshold * GapThreshold

\* C6: merging such a pair returns exactly one segment, at least as long as
\* the longer of the two.
C6_MergeTwo ==
    (pc = "merged" /\ MergeablePair) =>
        /\ Len(merged) = 1
        /\ merged[1].len2 >= raw[1].len2
        /\ merged[1].len2 >= raw[2].len2
        /\ merged[1].len2 = Dist2(merged[1].start, merged[1].end)

C6_Witness ==
    /\ pc = "merged" /\ MergeablePair /\ Len(merged) = 1
    /\ merged[1].len2 > raw[1].len2 /\ merged[1].len2 > raw[2].len2

----------------------------------------------------------------------------
(* Properties of the mask (checked under SpecMask) *)

\* The pixel lies in the box of d padded by `padding` on every side.
InPadded(x, y, d, padding) ==
    /\ d.bbox[1] - padding <= x /\ x < d.bbox[1] + d.bbox[3] + padding
    /\ d.bbox[2] - padding <= y /\ y < d.bbox[2] + d.bbox[4] + padding

Masked(x, y) ==
    \/ \E k \in 1..Len(symbols) : InPadded(x, y, symbols[k], SymbolPadding)
    \/ \E k \in 1..Len(text_elements) : InPadded(x, y, text_elements[k], TextPadding)

\* The pixels of the result are the background value inside the padded
\* boxes and the input's values elsewhere.
MaskedExactly ==
    \A y \in DOMAIN gray : \A x \in DOMAIN gray[y] :
        result[y][x] = IF Masked(x, y) THEN BackgroundColor(gray) ELSE gray[y][x]

\* C24: after _mask_symbols_and_text the pixels inside a padded symbol or
\* text box hold the background value and all others their input value,
\* for every box, also one partly or wholly outside the image.
C24_MaskExactlyTheBoxes ==
    (pc = "masked") => MaskedExactly

\* No box ends above or to the left of the raster once padded.
BoxesReachImage ==
    /\ \A k \in 1..Len(symbols) :
           /\ symbols[k].bbox[1] + symbols[k].bbox[3] + SymbolPadding >= 0
           /\ symbols[k].bbox[2] + symbols[k].bbox[4] + SymbolPadding >= 0
    /\ \A k \in 1..Len(text_elements) :
           /\ text_elements[k].bbox[1] + text_elements[k].bbox[3] + TextPadding >= 0
           /\ text_elements[k].bbox[2] + text_elements[k].bbox[4] + TextPadding >= 0

\* The same holds for the boxes whose padded right and bottom edges are
\* not negative.
C24_MaskWhenBoxesReachImage ==
    (pc = "masked" /\ BoxesReachImage) => MaskedExactly

----------------------------------------------------------------------------
(* Properties of the log endpoint (checked under SpecLogs) *)

\* The client holds the messages 1, 2, ..., m, each once and in order.
ReceivedInOrder ==
    \A k \in 1..Len(client.received) : client.received[k] = k

\* C29: a client polling with the previous total as since receives every
\* message appended exactly once and in order, for any interleaving of
\* add_log calls and polls and any number of messages.
C29_EveryMessageOnceInOrder ==
    /\ ReceivedInOrder
    /\ pc = "polled" => Len(client.received) = Appended

\* The same holds as long as no more than 200 messages were appended.
C29_UpToTheLimit ==
    (Appended <= LogLimit) =>
        /\ ReceivedInOrder
        /\ pc = "polled" => Len(client.received) = Appended

====
